---- MODULE Spec2Model ----
(***************************************************************************)
(* Order lifecycle and receiving reconciliation of the inventory           *)
(* management backend (backend/app/api/endpoints/orders.py, receipts.py,   *)
(* admin.py).                                                              *)
(*                                                                         *)
(* The model follows ONE order of one property through the HTTP handlers   *)
(* of orders.py.  The variables are the committed rows of the database     *)
(* (orders, order_items, inventory_items); a handler that commits once is  *)
(* one action, a handler that commits twice is two steps separated by the  *)
(* program position pc, because the first commit is already visible to     *)
(* every other session and survives a failure of the rest of the handler.  *)
(*                                                                         *)
(* Abstractions (all stated here, none hidden in the actions):             *)
(*  - authentication and property access always succeed (out of scope);    *)
(*  - a timestamp column is Null or "set" (datetime.utcnow() is not        *)
(*    compared with anything by the handlers);                             *)
(*  - Float quantities and prices are integers;                            *)
(*  - a receive request names each order item at most once, so the list    *)
(*    request.items is a function from item ids to entries;                *)
(*  - update_order writes only week_of and notes (it discards a status in  *)
(*    the payload): it touches no variable of the model and is no action;  *)
(*  - the notifications of review_order and receive_order_items are sent   *)
(*    after the commit; whether each dispatch succeeds is an input of the  *)
(*    handler, and the notification rows themselves are not state;         *)
(*  - the variables hold what the mapped classes of app/models store.      *)
(*    models/order.py maps neither issue_photo_url nor shortage_dismissed  *)
(*    on OrderItem (schemas/order.py:50-51 declares both): the assignment  *)
(*    "item.issue_photo_url = ..." of receive_order_items sets a plain     *)
(*    attribute of the loaded object that no commit stores, and reading    *)
(*    OrderItem.shortage_dismissed or item.shortage_dismissed raises       *)
(*    AttributeError;                                                      *)
(*  - the receipts of the order (api/endpoints/receipts.py) are a field of *)
(*    the order row, keyed by receipt id; a receipt handler commits the    *)
(*    receipt, the order's actual_total and the inventory prices one after *)
(*    the other, and the three commits are one action here;                *)
(*  - the items of a seeded historical order (api/endpoints/admin.py) are  *)
(*    all matched to the catalog item by find_matching_inventory_item.     *)
(***************************************************************************)
EXTENDS Integers, Sequences, FiniteSets, TLC

\* ------------------------------------------------------------------ bounds
\* Order-item ids handed out by the autoincrement key: 1..MaxItemId.
MaxItemId == 2
\* Largest quantity an order or review request carries (requested, approved).
MaxQty == 2
\* Largest quantity a receive request carries.
MaxReceived == 1
\* Receipt ids handed out by the autoincrement key: 1..MaxReceiptId.
MaxReceiptId == 2
\* The line-item handlers are not taken when a receipt total would leave
\* 0..MaxTotal.
MaxTotal == 2
\* Most receipt code aliases stored: alias ids 1..MaxAliasId.
MaxAliasId == 2
\* Most matches one alias counts.
MaxMatchCount == 2
\* The handlers are not taken when stock would leave -MaxStock..MaxStock.
MaxStock == 2
\* Longest item name handed to the matcher, in characters.
MaxNameLen == 3
\* Most inventory items the matcher compares a name with.
MaxCandidates == 2
\* The dates datetime.utcnow() shows: 1..MaxDate.
MaxDate == 2

\* Python None / SQL NULL in a text or timestamp column.
Null == "null"
\* Python None / SQL NULL in a numeric column (ids, quantities, prices); the
\* numbers the model stores in those columns are never negative.
None == -1
\* A timestamp column that holds a datetime.
Set == "set"

ItemIds == 1..MaxItemId

\* -------------------------------------------------------------- the state
VARIABLES
    order,          \* the row of table orders (status "absent" before create)
    items,          \* order_items rows of the order: item id -> row
    next_item_id,   \* next value of the order_items autoincrement key
    inventory,      \* inventory_items rows of the property: id -> row
    stock_added,    \* history: stock each order item has added so far
    pc,             \* "idle", or the handler that is between its two commits
    last,           \* the last handler that returned, and how
    aliases,        \* receipt_code_aliases rows: alias id -> row
    matching,       \* the call of the inventory matcher: its arguments and what it returned
    session,        \* the receive call in flight: what it loaded and what it is about to write
    order_numbers,  \* the unique index on orders.order_number: the numbers of all orders rows
    utcnow          \* the date of datetime.utcnow()

vars == <<order, items, next_item_id, inventory, stock_added, pc, last, aliases, matching, session, order_numbers, utcnow>>

\* OrderStatus (models/order.py) plus the two values for "no such row".
OrderStatus ==
    {"draft", "submitted", "under_review", "approved", "changes_requested",
     "ordered", "partially_received", "received", "cancelled"}

\* No call of the inventory matcher is being followed.
NoMatching ==
    [item_name |-> <<>>, inventory_items |-> <<>>, similarity_threshold |-> 0,
     scores |-> <<>>, returned |-> FALSE,
     result |-> [best_match |-> None, best_score |-> [num |-> 0, den |-> 1]]]

\* No receive call is in flight.
NoSession ==
    [phase |-> "none", request |-> [items |-> <<>>, finalize |-> FALSE],
     loaded_order |-> [status |-> "absent"], new_order |-> [status |-> "absent"],
     loaded_items |-> <<>>, new_items |-> <<>>,
     loaded_stock |-> <<>>, new_stock |-> <<>>,
     stock_changes |-> <<>>, resent |-> FALSE, stale |-> FALSE]

\* The orders row before create_order; Order.estimated_total defaults to 0.0.
\* receipts is the relationship Order.receipts: receipt id -> receipts row.
NoOrder ==
    [status |-> "absent", submitted_at |-> Null, reviewed_by |-> Null,
     reviewed_at |-> Null, review_notes |-> Null, approved_at |-> Null,
     ordered_at |-> Null, received_at |-> Null, estimated_total |-> 0,
     actual_total |-> None, receipts |-> <<>>, order_number |-> <<>>]

\* Property.code of the property of the order.
PropertyCode == "YRC"

\* generate_order_number: f"{property_code}-{utcnow:%Y%m%d}"
generate_order_number(property_code, today) == <<property_code, "-", today>>

\* The catalog the property starts with: one recurring inventory item.
CatalogItemId == 1
SeedInventory ==
    (CatalogItemId :> [name |-> "flour", is_recurring |-> TRUE,
                       current_stock |-> 0, unit_price |-> 1])

\* A new OrderItem row (column defaults of models/order.py).
OrderItem(inventory_item_id, custom_item_name, requested_quantity, approved_quantity, unit_price) ==
    [inventory_item_id |-> inventory_item_id,
     custom_item_name |-> custom_item_name,
     requested_quantity |-> requested_quantity,
     approved_quantity |-> approved_quantity,
     received_quantity |-> None,
     unit_price |-> unit_price,
     reviewer_notes |-> Null,
     receiving_notes |-> Null,
     is_received |-> FALSE,
     has_issue |-> FALSE,
     issue_description |-> Null]

\* ---------------------------------------------------------------- helpers
RECURSIVE SumOver(_, _)
SumOver(S, f) ==
    IF S = {} THEN 0
    ELSE LET x == CHOOSE y \in S : TRUE
         IN  f[x] + SumOver(S \ {x}, f)

\* OrderItem.final_quantity
final_quantity(item) ==
    IF item.approved_quantity # None THEN item.approved_quantity
    ELSE item.requested_quantity

\* OrderItem.line_total / the loop body of calculate_order_total
line_total(item) ==
    final_quantity(item) * (IF item.unit_price = None THEN 0 ELSE item.unit_price)

\* calculate_order_total(order), over the collection order.items as loaded
calculate_order_total(its) ==
    SumOver(DOMAIN its, [i \in DOMAIN its |-> line_total(its[i])])

\* What the last request returned.  A handler that returns HTTP 2xx leaves
\* its name and result "ok"; a handler that raises an HTTPException leaves
\* op "rejected" and the kind of error as result.  For receive_order_items,
\* finalize is the flag of the request and resent tells that the request
\* followed a finalizing receive and carried, for every item it names, the
\* quantity that was already stored as received.
Returned(op, result, finalize, resent) ==
    [op |-> op, result |-> result, finalize |-> finalize, resent |-> resent]

Respond(op, result) == last' = Returned(op, result, FALSE, FALSE)

\* A handler that raises before any write.  The kinds of error: "not_found"
\* (404, no such order), "item_not_found" (404, no such order item),
\* "precondition" (400, a workflow endpoint on an order in the wrong status),
\* "not_editable" (400, an item endpoint on an order in the wrong status),
\* "empty_order" (400, submit without items), "referential" (400, a receive
\* request naming an item of another order), "integrity" (a commit refused
\* by a foreign key), "bad_request" (400, an empty body), "attribute_error"
\* (500, the handler read an attribute its object does not have).  A handler
\* that raises after its commit returns its own op with the result
\* "pending_rollback" (500, the session refused the reload of the response).
Reject(op, result) ==
    /\ last' = Returned("rejected", result, FALSE, FALSE)
    /\ UNCHANGED <<order, items, next_item_id, inventory, stock_added, pc, aliases, matching, session, order_numbers, utcnow>>

OrderExists == order.status \in OrderStatus

\* str.strip() and the case folding of ILIKE on the names of the model.
strip(name) == IF name = " twine" THEN "twine" ELSE name
lower(name) == IF name = "Twine" THEN "twine" ELSE name

\* The non-recurring inventory items whose name matches a custom name:
\* "InventoryItem.name.ilike(item_data.custom_item_name.strip())".
ExistingCustomItem(inv, name) ==
    {v \in DOMAIN inv : lower(inv[v].name) = lower(strip(name)) /\ ~inv[v].is_recurring}


\* The id (first()) of the matching non-recurring item; only used when one exists.
FirstOf(S) == CHOOSE v \in S : \A w \in S : v <= w

\* InventoryItem(... is_recurring=False, is_active=True, current_stock=0)
NewNonRecurringItem(name) ==
    [name |-> name, is_recurring |-> FALSE, current_stock |-> 0, unit_price |-> None]

\* "For custom items, create a non-recurring inventory item": the inventory
\* after the lookup-or-create, and the inventory_item_id the order item gets.
MaterializeCustomItem(inv, name) ==
    LET existing == ExistingCustomItem(inv, name)
        new_id == Cardinality(DOMAIN inv) + 1
    IN  IF existing # {}
        THEN [inventory |-> inv, inventory_item_id |-> FirstOf(existing)]
        ELSE [inventory |-> inv @@ (new_id :> NewNonRecurringItem(strip(name))), inventory_item_id |-> new_id]

\* "if inventory_item_id: ... if not unit_price: unit_price = inv_item.unit_price"
PriceFromInventory(inv, inventory_item_id, unit_price) ==
    IF inventory_item_id # None /\ inventory_item_id \in DOMAIN inv /\ (unit_price = None \/ unit_price = 0)
    THEN inv[inventory_item_id].unit_price
    ELSE unit_price

\* ------------------------------------------------------- order and items
\* The loop "for item_data in order_data.items" of create_order.
RECURSIVE create_order_items(_, _, _, _)
create_order_items(item_list, its, inv, nid) ==
    IF item_list = <<>>
    THEN [items |-> its, inventory |-> inv, next_item_id |-> nid]
    ELSE LET item_data == Head(item_list)
             custom == item_data.inventory_item_id = None /\ item_data.custom_item_name # Null
             m == IF custom THEN MaterializeCustomItem(inv, item_data.custom_item_name)
                  ELSE [inventory |-> inv, inventory_item_id |-> item_data.inventory_item_id]
             order_item == OrderItem(m.inventory_item_id,
                                     IF m.inventory_item_id = None THEN item_data.custom_item_name ELSE Null,
                                     item_data.requested_quantity, None, item_data.unit_price)
         IN  create_order_items(Tail(item_list), its @@ (nid :> order_item), m.inventory, nid + 1)

\* create_order up to its first db.commit(): the order and its items are
\* stored, estimated_total still holds the column default.
create_order(order_data) ==
    /\ pc = "idle"
    /\ order.status = "absent"
    /\ next_item_id + Len(order_data.items) - 1 <= MaxItemId
    /\ LET order_number == generate_order_number(PropertyCode, utcnow)
           r == create_order_items(order_data.items, items, inventory, next_item_id)
       IN  IF order_number \in order_numbers
           THEN Reject("create_order", "integrity")
           ELSE /\ order' = [NoOrder EXCEPT !.status = "draft", !.order_number = order_number]
                /\ order_numbers' = order_numbers \cup {order_number}
                /\ items' = r.items
                /\ inventory' = r.inventory
                /\ next_item_id' = r.next_item_id
                /\ pc' = "create_order"
                /\ UNCHANGED <<stock_added, last, aliases, matching, session, utcnow>>

\* The second commit of create_order, add_order_item, add_review_item,
\* add_receiving_item and seed_historical_order: "order.estimated_total =
\* calculate_order_total(order); db.commit()".  The session was expired by
\* the first commit, so order.items is reloaded and holds the new item.
\* seed_historical_order adds "if order_status == RECEIVED: order.actual_total
\* = order.estimated_total".
commit_estimated_total ==
    /\ pc # "idle"
    /\ order' = [order EXCEPT
           !.estimated_total = calculate_order_total(items),
           !.actual_total = IF pc = "seed_historical_order" /\ order.status = "received"
                            THEN calculate_order_total(items) ELSE @]
    /\ pc' = "idle"
    /\ Respond(pc, "ok")
    /\ UNCHANGED <<items, next_item_id, inventory, stock_added, aliases, matching, session, order_numbers, utcnow>>

\* The request dies between the two commits (the reload of order.items or the
\* second commit raises, the statement timeout fires, the worker is killed):
\* what the first commit wrote stays.
fail_after_first_commit ==
    /\ pc # "idle"
    /\ pc' = "idle"
    /\ last' = Returned("rejected", "interrupted", FALSE, FALSE)
    /\ UNCHANGED <<order, items, next_item_id, inventory, stock_added, aliases, matching, session, order_numbers, utcnow>>

\* add_order_item up to its first commit.
add_order_item(item_data) ==
    /\ pc = "idle"
    /\ IF ~OrderExists THEN Reject("add_order_item", "not_found")
       ELSE IF order.status # "draft" THEN Reject("add_order_item", "not_editable")
       ELSE /\ next_item_id <= MaxItemId
            /\ items' = items @@ (next_item_id :> OrderItem(item_data.inventory_item_id, item_data.custom_item_name, item_data.requested_quantity, None, item_data.unit_price))
            /\ next_item_id' = next_item_id + 1
            /\ pc' = "add_order_item"
            /\ UNCHANGED <<order, inventory, stock_added, last, aliases, matching, session, order_numbers, utcnow>>

\* add_review_item up to its first commit.
add_review_item(item_data) ==
    /\ pc = "idle"
    /\ IF ~OrderExists THEN Reject("add_review_item", "not_found")
       ELSE IF order.status \notin {"submitted", "under_review"} THEN Reject("add_review_item", "not_editable")
       ELSE /\ next_item_id <= MaxItemId
            /\ LET unit_price == PriceFromInventory(inventory, item_data.inventory_item_id, item_data.unit_price)
                   name == IF item_data.inventory_item_id = None THEN item_data.custom_item_name ELSE Null
               IN  items' = items @@ (next_item_id :> OrderItem(item_data.inventory_item_id, name, item_data.requested_quantity, item_data.requested_quantity, unit_price))
            /\ next_item_id' = next_item_id + 1
            /\ pc' = "add_review_item"
            /\ UNCHANGED <<order, inventory, stock_added, last, aliases, matching, session, order_numbers, utcnow>>

\* update_order_item: the supervisor edits one item during review.
update_order_item(item_id, item_data) ==
    /\ pc = "idle"
    /\ IF ~OrderExists THEN Reject("update_order_item", "not_found")
       ELSE IF order.status \notin {"submitted", "under_review"} THEN Reject("update_order_item", "precondition")
       ELSE IF item_id \notin DOMAIN items THEN Reject("update_order_item", "item_not_found")
       ELSE LET item == items[item_id]
                new_item == [item EXCEPT
                    !.approved_quantity = IF item_data.approved_quantity # None THEN item_data.approved_quantity ELSE @,
                    !.reviewer_notes = IF item_data.reviewer_notes # Null THEN item_data.reviewer_notes ELSE @]
                new_items == [items EXCEPT ![item_id] = new_item]
            IN  /\ items' = new_items
                /\ order' = [order EXCEPT
                       !.status = IF @ = "submitted" THEN "under_review" ELSE @,
                       !.estimated_total = calculate_order_total(new_items)]
                /\ Respond("update_order_item", "ok")
                /\ UNCHANGED <<next_item_id, inventory, stock_added, pc, aliases, matching, session, order_numbers, utcnow>>

\* delete_order: db.delete(order) cascades to the items.
delete_order ==
    /\ pc = "idle"
    /\ IF ~OrderExists THEN Reject("delete_order", "not_found")
       ELSE IF order.status # "draft" THEN Reject("delete_order", "precondition")
       ELSE /\ order' = [NoOrder EXCEPT !.status = "deleted"]
            /\ order_numbers' = order_numbers \ {order.order_number}
            /\ items' = <<>>
            /\ Respond("delete_order", "ok")
            /\ UNCHANGED <<next_item_id, inventory, stock_added, pc, aliases, matching, session, utcnow>>

\* The collection order.items as calculate_order_total sees it right after
\* db.delete(item): SessionLocal is built with autoflush=False, so the DELETE
\* has not been flushed when order.items is loaded and the row is still there.
items_after_delete_unflushed(item_id) == items

\* delete_order_item
delete_order_item(item_id) ==
    /\ pc = "idle"
    /\ IF ~OrderExists THEN Reject("delete_order_item", "not_found")
       ELSE IF order.status \notin {"draft", "changes_requested"} THEN Reject("delete_order_item", "not_editable")
       ELSE IF item_id \notin DOMAIN items THEN Reject("delete_order_item", "item_not_found")
       ELSE /\ items' = [i \in DOMAIN items \ {item_id} |-> items[i]]
            /\ order' = [order EXCEPT !.estimated_total = calculate_order_total(items_after_delete_unflushed(item_id))]
            /\ Respond("delete_order_item", "ok")
            /\ UNCHANGED <<next_item_id, inventory, stock_added, pc, aliases, matching, session, order_numbers, utcnow>>

\* update_draft_order_item: the requester changes a requested quantity.
update_draft_order_item(item_id, quantity) ==
    /\ pc = "idle"
    /\ IF ~OrderExists THEN Reject("update_draft_order_item", "not_found")
       ELSE IF order.status \notin {"draft", "changes_requested"} THEN Reject("update_draft_order_item", "not_editable")
       ELSE IF item_id \notin DOMAIN items THEN Reject("update_draft_order_item", "item_not_found")
       ELSE LET new_items == [items EXCEPT ![item_id].requested_quantity = quantity]
            IN  /\ items' = new_items
                /\ order' = [order EXCEPT !.estimated_total = calculate_order_total(new_items)]
                /\ Respond("update_draft_order_item", "ok")
                /\ UNCHANGED <<next_item_id, inventory, stock_added, pc, aliases, matching, session, order_numbers, utcnow>>


\* --------------------------------------------------------------- workflow
\* Faulty variant of is_empty_order: an order is never taken to be empty.
is_empty_order_never(its) == FALSE

\* "if len(order.items) == 0" of submit_order.
is_empty_order(its) == Cardinality(DOMAIN its) = 0

\* submit_order
submit_order ==
    /\ pc = "idle"
    /\ IF ~OrderExists THEN Reject("submit_order", "not_found")
       ELSE IF order.status # "draft" THEN Reject("submit_order", "precondition")
       ELSE IF is_empty_order(items) THEN Reject("submit_order", "empty_order")
       ELSE /\ order' = [order EXCEPT !.status = "submitted", !.submitted_at = Set,
                                      !.estimated_total = calculate_order_total(items)]
            /\ Respond("submit_order", "ok")
            /\ UNCHANGED <<items, next_item_id, inventory, stock_added, pc, aliases, matching, session, order_numbers, utcnow>>

\* Faulty variant of WithdrawStatuses: an ordered order can be withdrawn.
WithdrawStatuses_ordered == {"submitted", "under_review", "approved", "ordered"}

\* allowed_statuses of withdraw_order
WithdrawStatuses == {"submitted", "under_review", "approved"}

\* withdraw_order
withdraw_order ==
    /\ pc = "idle"
    /\ IF ~OrderExists THEN Reject("withdraw_order", "not_found")
       ELSE IF order.status \notin WithdrawStatuses THEN Reject("withdraw_order", "precondition")
       ELSE /\ order' = [order EXCEPT !.status = "draft", !.submitted_at = Null]
            /\ Respond("withdraw_order", "ok")
            /\ UNCHANGED <<items, next_item_id, inventory, stock_added, pc, aliases, matching, session, order_numbers, utcnow>>

\* The statuses review_order accepts.
ReviewStatuses == {"submitted", "under_review"}

\* The loop "for update in request.item_updates" of review_order: an update
\* whose item_id is not an item of the order is skipped ("if item:").
RECURSIVE apply_item_updates(_, _)
apply_item_updates(item_updates, its) ==
    IF item_updates = <<>> THEN its
    ELSE LET update == Head(item_updates)
             next_its ==
                 IF update.item_id \in DOMAIN its
                 THEN [its EXCEPT ![update.item_id] = [@ EXCEPT
                          !.approved_quantity = IF "approved_quantity" \in update.keys THEN update.approved_quantity ELSE @,
                          !.reviewer_notes = IF "reviewer_notes" \in update.keys THEN update.reviewer_notes ELSE @]]
                 ELSE its
         IN  apply_item_updates(Tail(item_updates), next_its)

\* Faulty variant of default_approved_quantities: every item is approved as
\* requested, whatever the reviewer had set.
default_approved_quantities_all(its) ==
    [i \in DOMAIN its |-> [its[i] EXCEPT !.approved_quantity = its[i].requested_quantity]]

\* "Set approved_quantity to requested if not modified" (action approve).
default_approved_quantities(its) ==
    [i \in DOMAIN its |->
        IF its[i].approved_quantity = None
        THEN [its[i] EXCEPT !.approved_quantity = its[i].requested_quantity]
        ELSE its[i]]

\* The status review_order leaves for an action; any other string leaves it.
review_status(action, status) ==
    CASE action = "approve" -> "approved"
      [] action = "request_changes" -> "changes_requested"
      [] action = "reject" -> "cancelled"
      [] OTHER -> status

\* What can happen to the notifications that follow a commit.  The email
\* is sent or raises; create_flagged_item_notifications adds its rows and
\* commits them, or its commit raises.
EmailOutcomes == {"sent", "failed"}
InAppOutcomes == {"created", "failed"}

\* What the caller gets after the notifications.  Both dispatches sit in
\* "try ... except Exception: logging.error(...)".  A failed email leaves
\* nothing behind.  A failed db.commit() of the notification rows leaves the
\* session's transaction rolled back and inactive, and the except clause
\* does not call db.rollback(): "return order" then serialises an expired
\* object whose reload the session refuses (PendingRollbackError), and the
\* caller gets HTTP 500 although the commit of the handler is stored.
response_after_notifications(op, email, in_app, finalize, resent) ==
    IF in_app = "failed"
    THEN Returned(op, "pending_rollback", finalize, resent)
    ELSE Returned(op, "ok", finalize, resent)

\* review_order.  Its only notification is the email to the creator of the
\* order, after the commit, for "approve" and "request_changes".
review_order(request) ==
    /\ pc = "idle"
    /\ IF ~OrderExists THEN Reject("review_order", "not_found")
       ELSE IF order.status \notin ReviewStatuses THEN Reject("review_order", "precondition")
       ELSE LET updated == IF request.item_updates = <<>> THEN items
                           ELSE apply_item_updates(request.item_updates, items)
                new_items == IF request.action = "approve" THEN default_approved_quantities(updated) ELSE updated
            IN  /\ items' = new_items
                /\ order' = [order EXCEPT
                       !.reviewed_by = "supervisor",
                       !.reviewed_at = Set,
                       !.review_notes = request.review_notes,
                       !.status = review_status(request.action, @),
                       !.approved_at = IF request.action = "approve" THEN Set ELSE @,
                       !.estimated_total = calculate_order_total(new_items)]
                /\ IF request.action \in {"approve", "request_changes"}
                   THEN \E email \in EmailOutcomes :
                           last' = response_after_notifications("review_order", email, "created",
                                                                FALSE, FALSE)
                   ELSE Respond("review_order", "ok")
                /\ UNCHANGED <<next_item_id, inventory, stock_added, pc, aliases, matching, session, order_numbers, utcnow>>

\* Faulty variant of reset_approval_quantities: the reviewer's notes stay.
reset_approval_quantities_only(its) ==
    [i \in DOMAIN its |-> [its[i] EXCEPT !.approved_quantity = None]]

\* "Reset approval quantities to allow fresh review": the loop of
\* resubmit_order over order.items.
reset_approval_quantities(its) ==
    [i \in DOMAIN its |-> [its[i] EXCEPT !.approved_quantity = None, !.reviewer_notes = Null]]

\* resubmit_order
resubmit_order ==
    /\ pc = "idle"
    /\ IF ~OrderExists THEN Reject("resubmit_order", "not_found")
       ELSE IF order.status \notin {"changes_requested", "draft"} THEN Reject("resubmit_order", "precondition")
       ELSE IF Cardinality(DOMAIN items) = 0 THEN Reject("resubmit_order", "empty_order")
       ELSE LET new_items == reset_approval_quantities(items)
            IN  /\ items' = new_items
                /\ order' = [order EXCEPT !.status = "submitted", !.submitted_at = Set,
                                          !.reviewed_by = Null, !.reviewed_at = Null, !.review_notes = Null,
                                          !.estimated_total = calculate_order_total(new_items)]
                /\ Respond("resubmit_order", "ok")
                /\ UNCHANGED <<next_item_id, inventory, stock_added, pc, aliases, matching, session, order_numbers, utcnow>>

\* mark_order_ordered
mark_order_ordered ==
    /\ pc = "idle"
    /\ IF ~OrderExists THEN Reject("mark_order_ordered", "not_found")
       ELSE IF order.status # "approved" THEN Reject("mark_order_ordered", "precondition")
       ELSE /\ order' = [order EXCEPT !.status = "ordered", !.ordered_at = Set]
            /\ Respond("mark_order_ordered", "ok")
            /\ UNCHANGED <<items, next_item_id, inventory, stock_added, pc, aliases, matching, session, order_numbers, utcnow>>

\* unmark_order_ordered
unmark_order_ordered ==
    /\ pc = "idle"
    /\ IF ~OrderExists THEN Reject("unmark_order_ordered", "not_found")
       ELSE IF order.status # "ordered" THEN Reject("unmark_order_ordered", "precondition")
       ELSE /\ order' = [order EXCEPT !.status = "approved", !.ordered_at = Null]
            /\ Respond("unmark_order_ordered", "ok")
            /\ UNCHANGED <<items, next_item_id, inventory, stock_added, pc, aliases, matching, session, order_numbers, utcnow>>

\* -------------------------------------------------------------- receiving
\* add_receiving_item up to its first commit.
add_receiving_item(item_data) ==
    /\ pc = "idle"
    /\ IF ~OrderExists THEN Reject("add_receiving_item", "not_found")
       ELSE IF order.status \notin {"ordered", "partially_received"} THEN Reject("add_receiving_item", "not_editable")
       ELSE /\ next_item_id <= MaxItemId
            /\ LET custom == item_data.inventory_item_id = None /\ item_data.custom_item_name # Null
                   m == IF custom THEN MaterializeCustomItem(inventory, item_data.custom_item_name)
                        ELSE [inventory |-> inventory, inventory_item_id |-> item_data.inventory_item_id]
                   unit_price == PriceFromInventory(inventory, item_data.inventory_item_id, item_data.unit_price)
                   name == IF m.inventory_item_id = None THEN item_data.custom_item_name ELSE Null
               IN  /\ items' = items @@ (next_item_id :> OrderItem(m.inventory_item_id, name, item_data.requested_quantity, item_data.requested_quantity, unit_price))
                   /\ inventory' = m.inventory
            /\ next_item_id' = next_item_id + 1
            /\ pc' = "add_receiving_item"
            /\ UNCHANGED <<order, stock_added, last, aliases, matching, session, order_numbers, utcnow>>

\* Faulty variant of ReceivableStatuses: an approved order can be received.
ReceivableStatuses_approved == {"approved", "ordered", "partially_received", "received"}

\* The statuses receive_order_items accepts, with or without finalize:
\* "Allow receiving for ordered, partially_received, and received orders".
ReceivableStatuses == {"ordered", "partially_received", "received"}

\* Faulty variant of old_received_quantity: the stored quantity is ignored.
old_received_quantity_ignored(item) == 0

\* "old_received_quantity = item.received_quantity or 0"
old_received_quantity(item) ==
    IF item.received_quantity = None THEN 0 ELSE item.received_quantity

\* "if item.inventory_item": the order item is linked to an inventory row.
IsLinked(item) == item.inventory_item_id # None /\ item.inventory_item_id \in DOMAIN inventory

\* Faulty variant of stock_change: the full quantity is added again when the
\* item was already received.
stock_change_full(item, item_req) ==
    IF ~IsLinked(item) THEN 0 ELSE item_req.received_quantity

\* The change of current_stock a finalizing request makes for one order item.
stock_change(item, item_req) ==
    IF ~IsLinked(item) THEN 0
    ELSE IF item.is_received
         THEN item_req.received_quantity - old_received_quantity(item)
         ELSE item_req.received_quantity

\* Faulty variant of received_item: the item is marked received by a save
\* that does not finalize.
received_item_marking(item, item_req, finalize) ==
    [item EXCEPT
        !.received_quantity = item_req.received_quantity,
        !.has_issue = item_req.has_issue,
        !.issue_description = item_req.issue_description,
        !.receiving_notes = item_req.receiving_notes,
        !.is_received = TRUE]

\* The body of "for item_req in request.items" on the order item itself.
received_item(item, item_req, finalize) ==
    [item EXCEPT
        !.received_quantity = item_req.received_quantity,
        !.has_issue = item_req.has_issue,
        !.issue_description = item_req.issue_description,
        !.receiving_notes = item_req.receiving_notes,
        !.is_received = IF finalize THEN TRUE ELSE @]

\* Faulty variant of invalid_item_ids: unknown ids are skipped, not reported.
invalid_item_ids_skipped(request) == {}

\* "invalid_item_ids = [... if item_req.item_id not in order_item_ids]"
invalid_item_ids(request) == {i \in DOMAIN request.items : i \notin DOMAIN items}

\* The request repeats what a finalizing receive has just stored.
resends_stored(request) ==
    /\ last.op = "receive_order_items" /\ last.finalize
    /\ DOMAIN request.items # {}
    /\ \A i \in DOMAIN request.items :
          /\ i \in DOMAIN items
          /\ items[i].is_received
          /\ items[i].received_quantity = request.items[i].received_quantity

\* The change of current_stock the request makes on behalf of order item i.
item_stock_change(i, request) ==
    IF request.finalize /\ i \in DOMAIN request.items /\ i \in DOMAIN items
    THEN stock_change(items[i], request.items[i])
    ELSE 0

\* The sum of the stock changes of the order items in S.
RECURSIVE sum_stock_changes(_, _)
sum_stock_changes(S, request) ==
    IF S = {} THEN 0
    ELSE LET i == CHOOSE j \in S : TRUE
         IN  item_stock_change(i, request) + sum_stock_changes(S \ {i}, request)

\* current_stock of inventory row v after the loop over request.items.
stock_after_receive(v, request) ==
    inventory[v].current_stock
        + sum_stock_changes({i \in DOMAIN request.items \cap DOMAIN items : items[i].inventory_item_id = v}, request)

\* Order item i after the loop over request.items.
item_after_receive(i, request) ==
    IF i \in DOMAIN request.items
    THEN received_item(items[i], request.items[i], request.finalize)
    ELSE items[i]

\* Faulty variant of all_received: only the items named in the request count.
all_received_in_request(request) ==
    \A i \in DOMAIN request.items \cap DOMAIN items : item_after_receive(i, request).is_received

\* "all_received = all(i.is_received for i in order.items)" after the loop.
all_received(request) == \A i \in DOMAIN items : item_after_receive(i, request).is_received

\* Faulty variant of order_after_receive: a finalizing receive leaves the
\* status of the order as it was.
order_after_receive_same_status(request) == order

\* The orders row after "if request.finalize: ...".
order_after_receive(request) ==
    IF ~request.finalize THEN order
    ELSE IF all_received(request) THEN [order EXCEPT !.status = "received", !.received_at = Set]
    ELSE [order EXCEPT !.status = "partially_received"]

\* "flagged_items": collected only by a finalizing call, one per entry with
\* has_issue.
flagged_items(request) ==
    IF request.finalize THEN {i \in DOMAIN request.items : request.items[i].has_issue}
    ELSE {}

\* receive_order_items
receive_order_items(request) ==
    /\ pc = "idle"
    /\ IF ~OrderExists THEN Reject("receive_order_items", "not_found")
       ELSE IF order.status \notin ReceivableStatuses THEN Reject("receive_order_items", "precondition")
       ELSE IF invalid_item_ids(request) # {} THEN Reject("receive_order_items", "referential")
       ELSE /\ \A v \in DOMAIN inventory : stock_after_receive(v, request) \in -MaxStock..MaxStock
            /\ \A i \in ItemIds : stock_added[i] + item_stock_change(i, request) \in -MaxStock..MaxStock
            /\ items' = [i \in DOMAIN items |-> item_after_receive(i, request)]
            /\ inventory' = [v \in DOMAIN inventory |-> [inventory[v] EXCEPT !.current_stock = stock_after_receive(v, request)]]
            /\ stock_added' = [i \in ItemIds |-> stock_added[i] + item_stock_change(i, request)]
            /\ order' = order_after_receive(request)
            /\ IF flagged_items(request) = {}
               THEN last' = Returned("receive_order_items", "ok", request.finalize, resends_stored(request))
               ELSE \E email \in EmailOutcomes, in_app \in InAppOutcomes :
                       last' = response_after_notifications("receive_order_items", email, in_app,
                                                            request.finalize, resends_stored(request))
            /\ UNCHANGED <<next_item_id, pc, aliases, matching, session, order_numbers, utcnow>>

\* ------------------------------------------- receive calls that overlap
\* receive_order_items holds no lock ("with_for_update" appears nowhere): it
\* loads the order, its items and their inventory rows with one query
\* (orders.py:1583-1586), changes the loaded objects and commits.  Another
\* session can commit between the query and the commit.  The call in flight
\* is the variable session: receive_read is the query, the validation and
\* the loop over request.items on the loaded objects, receive_commit is
\* "db.commit()".  A second call that loads the same rows before either
\* commits and commits first is a step of receive_order_items taken while
\* session.phase = "read".  One call is followed through its two steps; the
\* calls before, between and after them are steps of receive_order_items.

\* The row after the UPDATE the unit of work emits at commit: it sets the
\* columns whose value differs from the value that was loaded, and an
\* object without such a column gets no UPDATE.
flush_row(row, loaded, new) ==
    [f \in DOMAIN row |-> IF new[f] # loaded[f] THEN new[f] ELSE row[f]]

\* The rows the call in flight loaded are no longer the rows of the database.
is_stale ==
    \/ items # session.loaded_items
    \/ order # session.loaded_order
    \/ \E v \in DOMAIN inventory : inventory[v].current_stock # session.loaded_stock[v]

\* receive_order_items up to its commit
receive_read(request) ==
    /\ pc = "idle"
    /\ session.phase = "none"
    /\ IF ~OrderExists THEN Reject("receive_order_items", "not_found")
       ELSE IF order.status \notin ReceivableStatuses THEN Reject("receive_order_items", "precondition")
       ELSE IF invalid_item_ids(request) # {} THEN Reject("receive_order_items", "referential")
       ELSE /\ \A v \in DOMAIN inventory : stock_after_receive(v, request) \in -MaxStock..MaxStock
            /\ \A i \in ItemIds : stock_added[i] + item_stock_change(i, request) \in -MaxStock..MaxStock
            /\ session' = [phase |-> "read", request |-> request,
                           loaded_order |-> order, new_order |-> order_after_receive(request),
                           loaded_items |-> items,
                           new_items |-> [i \in DOMAIN items |-> item_after_receive(i, request)],
                           loaded_stock |-> [v \in DOMAIN inventory |-> inventory[v].current_stock],
                           new_stock |-> [v \in DOMAIN inventory |-> stock_after_receive(v, request)],
                           stock_changes |-> [i \in ItemIds |-> item_stock_change(i, request)],
                           resent |-> resends_stored(request), stale |-> FALSE]
            /\ UNCHANGED <<order, items, next_item_id, inventory, stock_added, pc, last, aliases, matching, order_numbers, utcnow>>

\* "db.commit()" of the call in flight
receive_commit ==
    /\ pc = "idle"
    /\ session.phase = "read"
    /\ \A i \in ItemIds : stock_added[i] + session.stock_changes[i] \in -MaxStock..MaxStock
    /\ items' = [i \in DOMAIN items |->
                    IF i \in DOMAIN session.loaded_items
                    THEN flush_row(items[i], session.loaded_items[i], session.new_items[i])
                    ELSE items[i]]
    /\ inventory' = [v \in DOMAIN inventory |->
                        [inventory[v] EXCEPT !.current_stock =
                            IF session.new_stock[v] # session.loaded_stock[v]
                            THEN session.new_stock[v] ELSE @]]
    /\ order' = flush_row(order, session.loaded_order, session.new_order)
    /\ stock_added' = [i \in ItemIds |-> stock_added[i] + session.stock_changes[i]]
    /\ IF flagged_items(session.request) = {}
       THEN last' = Returned("receive_order_items", "ok", session.request.finalize, session.resent)
       ELSE \E email \in EmailOutcomes, in_app \in InAppOutcomes :
               last' = response_after_notifications("receive_order_items", email, in_app,
                                                    session.request.finalize, session.resent)
    /\ session' = [session EXCEPT !.phase = "committed", !.stale = is_stale]
    /\ UNCHANGED <<next_item_id, pc, aliases, matching, order_numbers, utcnow>>

\* ------------------------------------------------------------ shortages
\* get_unreceived_items: the filter of its query reads the class attribute
\* OrderItem.shortage_dismissed (orders.py:541).  The mapped class has no
\* such attribute (models/order.py:76-143), so the expression raises
\* AttributeError before a row is read and the handler answers 500.
get_unreceived_items ==
    /\ pc = "idle"
    /\ Reject("get_unreceived_items", "attribute_error")

\* dismiss_shortage: 400 for an empty list of ids, 404 when the ids name no
\* order item; for the order items found, the loop reads
\* item.shortage_dismissed (orders.py:666), which no OrderItem object has:
\* AttributeError before the commit.
dismiss_shortage(order_item_ids) ==
    /\ pc = "idle"
    /\ IF order_item_ids = {} THEN Reject("dismiss_shortage", "bad_request")
       ELSE IF order_item_ids \cap DOMAIN items = {} THEN Reject("dismiss_shortage", "item_not_found")
       ELSE Reject("dismiss_shortage", "attribute_error")

\* ----------------------------------------------------- historical orders
\* Python's "not x" for an optional number: None and 0 are falsy.
Falsy(x) == x = None \/ x = 0

\* status_map of seed_historical_order; any other string gives received.
seeded_status(status) ==
    IF status \in {"draft", "submitted", "approved", "ordered", "received"} THEN status ELSE "received"

\* order_date where the seeded status has passed the given statuses.
SeededAt(order_status, statuses) == IF order_status \in statuses THEN Set ELSE Null

\* The loop "for item_data in request.items" of seed_historical_order, for
\* items that find_matching_inventory_item matches to the catalog item: the
\* price of the inventory item is filled when it is empty, and the order item
\* is auto-approved and, in a received order, received as ordered.
RECURSIVE seed_order_items(_, _, _, _, _)
seed_order_items(item_list, order_status, its, inv, nid) ==
    IF item_list = <<>>
    THEN [items |-> its, inventory |-> inv, next_item_id |-> nid]
    ELSE LET item_data == Head(item_list)
             inventory_item == inv[CatalogItemId]
             fill == Falsy(inventory_item.unit_price) /\ ~Falsy(item_data.unit_price)
             next_inv == IF fill THEN [inv EXCEPT ![CatalogItemId].unit_price = item_data.unit_price] ELSE inv
             final_unit_price == IF ~Falsy(next_inv[CatalogItemId].unit_price)
                                 THEN next_inv[CatalogItemId].unit_price ELSE item_data.unit_price
             order_item == [OrderItem(CatalogItemId, Null, item_data.quantity, item_data.quantity, final_unit_price) EXCEPT
                               !.received_quantity = IF order_status = "received" THEN item_data.quantity ELSE None,
                               !.is_received = order_status = "received"]
         IN  seed_order_items(Tail(item_list), order_status, its @@ (nid :> order_item), next_inv, nid + 1)

\* seed_historical_order up to its first db.commit().
seed_historical_order(request) ==
    /\ pc = "idle"
    /\ order.status = "absent"
    /\ next_item_id + Len(request.items) - 1 <= MaxItemId
    /\ LET order_number == generate_order_number(PropertyCode, utcnow)
           order_status == seeded_status(request.status)
           r == seed_order_items(request.items, order_status, items, inventory, next_item_id)
       IN  IF order_number \in order_numbers
           THEN Reject("seed_historical_order", "integrity")
           ELSE /\ order' = [NoOrder EXCEPT
                       !.order_number = order_number,
                       !.status = order_status,
                       !.submitted_at = SeededAt(order_status, {"submitted", "approved", "ordered", "received"}),
                       !.reviewed_by = IF order_status \in {"approved", "ordered", "received"} THEN "admin" ELSE Null,
                       !.reviewed_at = SeededAt(order_status, {"approved", "ordered", "received"}),
                       !.approved_at = SeededAt(order_status, {"approved", "ordered", "received"}),
                       !.ordered_at = SeededAt(order_status, {"ordered", "received"}),
                       !.received_at = SeededAt(order_status, {"received"})]
                /\ order_numbers' = order_numbers \cup {order_number}
                /\ items' = r.items
                /\ inventory' = r.inventory
                /\ next_item_id' = r.next_item_id
                /\ pc' = "seed_historical_order"
                /\ UNCHANGED <<stock_added, last, aliases, matching, session, utcnow>>

\* -------------------------------------------------------------- receipts
\* A new receipts row (models/receipt.py) linked to the order.
Receipt(total, line_items) ==
    [total |-> total, line_items |-> line_items, is_manually_verified |-> FALSE]

\* "sum(r.total or 0 for r in order.receipts)"
sum_receipt_totals(receipts) ==
    SumOver(DOMAIN receipts, [r \in DOMAIN receipts |-> IF receipts[r].total = None THEN 0 ELSE receipts[r].total])

\* _update_order_actual_total, on the order row with its receipts.
update_order_actual_total(ord) ==
    [ord EXCEPT !.actual_total = sum_receipt_totals(ord.receipts)]

\* _update_inventory_prices_from_receipt: every line item with a matched
\* order item and a unit price sets the unit_price of the inventory item the
\* order item is linked to, in the order of the list.
RECURSIVE update_inventory_prices_from_receipt(_, _)
update_inventory_prices_from_receipt(line_items, inv) ==
    IF line_items = <<>> THEN inv
    ELSE LET line_item == Head(line_items)
             matched == line_item.matched_order_item_id
             skip == \/ Falsy(matched) \/ Falsy(line_item.unit_price)
                     \/ matched \notin DOMAIN items
                     \/ Falsy(items[matched].inventory_item_id)
                     \/ items[matched].inventory_item_id \notin DOMAIN inv
             next_inv == IF skip THEN inv
                         ELSE [inv EXCEPT ![items[matched].inventory_item_id].unit_price = line_item.unit_price]
         IN  update_inventory_prices_from_receipt(Tail(line_items), next_inv)

\* The id the receipts autoincrement key hands out next (the id of a
\* deleted latest receipt is handed out again: the row is gone).
next_receipt_id ==
    IF DOMAIN order.receipts = {} THEN 1
    ELSE 1 + CHOOSE r \in DOMAIN order.receipts : \A q \in DOMAIN order.receipts : q <= r

\* The frame of the receipt handlers: they write receipts, the order's
\* actual_total and inventory prices only.
ReceiptFrame == UNCHANGED <<items, next_item_id, stock_added, pc, aliases, matching, session, order_numbers, utcnow>>

\* create_receipt: the body carries totals but no line items. The handler
\* does not look the order up; the insert of a receipt whose order_id names
\* no order fails on the foreign key (models/receipt.py:17).
create_receipt(receipt_data) ==
    /\ pc = "idle"
    /\ IF ~OrderExists THEN Reject("create_receipt", "integrity")
       ELSE /\ next_receipt_id <= MaxReceiptId
            /\ order' = update_order_actual_total(
                   [order EXCEPT !.receipts = @ @@ (next_receipt_id :> Receipt(receipt_data.total, <<>>))])
            /\ Respond("create_receipt", "ok")
            /\ UNCHANGED inventory
            /\ ReceiptFrame

\* upload_receipt, given what the extraction returned for the image.
upload_receipt(extracted_data) ==
    /\ pc = "idle"
    /\ IF ~OrderExists THEN Reject("upload_receipt", "not_found")
       ELSE /\ next_receipt_id <= MaxReceiptId
            /\ order' = update_order_actual_total(
                   [order EXCEPT !.receipts = @ @@ (next_receipt_id :> Receipt(extracted_data.total, extracted_data.line_items))])
            /\ inventory' = update_inventory_prices_from_receipt(extracted_data.line_items, inventory)
            /\ Respond("upload_receipt", "ok")
            /\ ReceiptFrame

\* update_receipt: the keys of the body that are set are written
\* (exclude_unset); prices follow when line_items is among them.
update_receipt(receipt_id, receipt_data) ==
    /\ pc = "idle"
    /\ IF ~OrderExists \/ receipt_id \notin DOMAIN order.receipts THEN Reject("update_receipt", "not_found")
       ELSE LET receipt == order.receipts[receipt_id]
                new_receipt == [receipt EXCEPT
                    !.total = IF "total" \in receipt_data.keys THEN receipt_data.total ELSE @,
                    !.line_items = IF "line_items" \in receipt_data.keys THEN receipt_data.line_items ELSE @]
            IN  /\ order' = update_order_actual_total([order EXCEPT !.receipts[receipt_id] = new_receipt])
                /\ inventory' = IF "line_items" \in receipt_data.keys /\ new_receipt.line_items # <<>>
                                THEN update_inventory_prices_from_receipt(new_receipt.line_items, inventory)
                                ELSE inventory
                /\ Respond("update_receipt", "ok")
                /\ ReceiptFrame

\* verify_receipt
verify_receipt(receipt_id) ==
    /\ pc = "idle"
    /\ IF ~OrderExists \/ receipt_id \notin DOMAIN order.receipts THEN Reject("verify_receipt", "not_found")
       ELSE /\ order' = [order EXCEPT !.receipts[receipt_id].is_manually_verified = TRUE]
            /\ inventory' = update_inventory_prices_from_receipt(order.receipts[receipt_id].line_items, inventory)
            /\ Respond("verify_receipt", "ok")
            /\ ReceiptFrame

\* delete_receipt
delete_receipt(receipt_id) ==
    /\ pc = "idle"
    /\ IF ~OrderExists \/ receipt_id \notin DOMAIN order.receipts THEN Reject("delete_receipt", "not_found")
       ELSE /\ order' = update_order_actual_total(
                   [order EXCEPT !.receipts = [r \in DOMAIN @ \ {receipt_id} |-> @[r]]])
            /\ Respond("delete_receipt", "ok")
            /\ UNCHANGED inventory
            /\ ReceiptFrame

\* "if receipt.total: receipt.total = receipt.total + total_diff"
adjusted_total(total, total_diff) ==
    IF Falsy(total) \/ total_diff = 0 THEN total ELSE total + total_diff

\* update_receipt_line_item: the line item at item_index takes the unit_price
\* and total_price of the body; the receipt total moves by the difference.
update_receipt_line_item(receipt_id, item_index, item_data) ==
    /\ pc = "idle"
    /\ IF ~OrderExists \/ receipt_id \notin DOMAIN order.receipts THEN Reject("update_receipt_line_item", "not_found")
       ELSE IF item_index \notin DOMAIN order.receipts[receipt_id].line_items THEN Reject("update_receipt_line_item", "item_not_found")
       ELSE LET receipt == order.receipts[receipt_id]
                line_item == receipt.line_items[item_index]
                old_total == IF line_item.total_price = None THEN 0 ELSE line_item.total_price
                new_line_item == [line_item EXCEPT
                    !.unit_price = IF item_data.unit_price # None THEN item_data.unit_price ELSE @,
                    !.total_price = IF item_data.total_price # None THEN item_data.total_price ELSE @]
                new_total == IF new_line_item.total_price = None THEN 0 ELSE new_line_item.total_price
                new_receipt == [receipt EXCEPT
                    !.line_items[item_index] = new_line_item,
                    !.total = adjusted_total(@, new_total - old_total)]
            IN  /\ new_receipt.total = None \/ new_receipt.total \in 0..MaxTotal
                /\ order' = update_order_actual_total([order EXCEPT !.receipts[receipt_id] = new_receipt])
                /\ Respond("update_receipt_line_item", "ok")
                /\ UNCHANGED inventory
                /\ ReceiptFrame

\* delete_receipt_line_item: "if receipt.total and deleted_total:
\* receipt.total = receipt.total - deleted_total".
delete_receipt_line_item(receipt_id, item_index) ==
    /\ pc = "idle"
    /\ IF ~OrderExists \/ receipt_id \notin DOMAIN order.receipts THEN Reject("delete_receipt_line_item", "not_found")
       ELSE IF item_index \notin DOMAIN order.receipts[receipt_id].line_items THEN Reject("delete_receipt_line_item", "item_not_found")
       ELSE LET receipt == order.receipts[receipt_id]
                deleted_total == receipt.line_items[item_index].total_price
                new_receipt == [receipt EXCEPT
                    !.line_items = SubSeq(@, 1, item_index - 1) \o SubSeq(@, item_index + 1, Len(@)),
                    !.total = IF Falsy(@) \/ Falsy(deleted_total) THEN @ ELSE @ - deleted_total]
            IN  /\ new_receipt.total = None \/ new_receipt.total \in 0..MaxTotal
                /\ order' = update_order_actual_total([order EXCEPT !.receipts[receipt_id] = new_receipt])
                /\ Respond("delete_receipt_line_item", "ok")
                /\ UNCHANGED inventory
                /\ ReceiptFrame

\* ------------------------------------------------------- receipt aliases
\* The receipt codes of the model and str.upper() on them.
ReceiptCodes == {"KS EGGS", "ks eggs"}
upper(receipt_code) == IF receipt_code = "ks eggs" THEN "KS EGGS" ELSE receipt_code

\* A new receipt_code_aliases row of match_receipt_item_to_inventory.
ReceiptCodeAlias(inventory_item_id, supplier_id, receipt_code, unit_price) ==
    [inventory_item_id |-> inventory_item_id, supplier_id |-> supplier_id,
     receipt_code |-> receipt_code, unit_price |-> unit_price,
     last_seen |-> Set, match_count |-> 1, is_active |-> TRUE]

\* The rows the query "Check if alias already exists" selects; .first()
\* returns one of them.
existing_aliases(match_request) ==
    {a \in DOMAIN aliases :
        /\ aliases[a].receipt_code = match_request.receipt_code
        /\ aliases[a].inventory_item_id = match_request.inventory_item_id
        /\ aliases[a].supplier_id = match_request.supplier_id}

\* The id the receipt_code_aliases autoincrement key hands out next.
next_alias_id ==
    IF DOMAIN aliases = {} THEN 1
    ELSE 1 + CHOOSE a \in DOMAIN aliases : \A b \in DOMAIN aliases : b <= a

\* "If receipt_id provided, update the receipt's line item to show as
\* matched": the lines whose item_name is the receipt code, compared in
\* upper case, take the inventory item.
receipt_lines_matched(line_items, match_request) ==
    [k \in DOMAIN line_items |->
        IF upper(line_items[k].item_name) = upper(match_request.receipt_code)
        THEN [line_items[k] EXCEPT
                 !.matched_inventory_item_id = match_request.inventory_item_id,
                 !.matched_order_item_name = inventory[match_request.inventory_item_id].name]
        ELSE line_items[k]]

\* Faulty variant of alias_after_match: a further match stores a further row.
alias_after_match_duplicating(match_request, existing) ==
    aliases @@ (next_alias_id :> ReceiptCodeAlias(match_request.inventory_item_id,
        match_request.supplier_id, match_request.receipt_code, match_request.unit_price))

\* The aliases after "if existing: ... else: ...": the existing row counts
\* one more match, or a new row with match_count 1 is stored.
alias_after_match(match_request, existing) ==
    IF existing # None
    THEN [aliases EXCEPT
             ![existing].match_count = @ + 1,
             ![existing].last_seen = Set,
             ![existing].unit_price = IF ~Falsy(match_request.unit_price) THEN match_request.unit_price ELSE @]
    ELSE aliases @@ (next_alias_id :> ReceiptCodeAlias(match_request.inventory_item_id,
             match_request.supplier_id, match_request.receipt_code, match_request.unit_price))

\* match_receipt_item_to_inventory
match_receipt_item_to_inventory(match_request) ==
    /\ pc = "idle"
    /\ IF match_request.inventory_item_id \notin DOMAIN inventory
       THEN Reject("match_receipt_item_to_inventory", "not_found")
       ELSE /\ \E existing \in (IF existing_aliases(match_request) = {} THEN {None} ELSE existing_aliases(match_request)) :
                  /\ aliases' = alias_after_match(match_request, existing)
                  /\ \A a \in DOMAIN aliases' : a <= MaxAliasId /\ aliases'[a].match_count <= MaxMatchCount
            /\ order' = IF /\ ~Falsy(match_request.receipt_id)
                           /\ match_request.receipt_id \in DOMAIN order.receipts
                           /\ order.receipts[match_request.receipt_id].line_items # <<>>
                        THEN [order EXCEPT !.receipts[match_request.receipt_id].line_items =
                                 receipt_lines_matched(@, match_request)]
                        ELSE order
            /\ Respond("match_receipt_item_to_inventory", "ok")
            /\ UNCHANGED <<items, next_item_id, inventory, stock_added, pc, matching, session, order_numbers, utcnow>>

\* delete_receipt_alias
delete_receipt_alias(alias_id) ==
    /\ pc = "idle"
    /\ IF alias_id \notin DOMAIN aliases THEN Reject("delete_receipt_alias", "not_found")
       ELSE /\ aliases' = [a \in DOMAIN aliases \ {alias_id} |-> aliases[a]]
            /\ Respond("delete_receipt_alias", "ok")
            /\ UNCHANGED <<order, items, next_item_id, inventory, stock_added, pc, matching, session, order_numbers, utcnow>>

\* ------------------------------------------------------------------ inputs
\* An OrderItemCreate body: a catalog item or a free-text ("custom") item.
ItemData(inventory_item_id, requested_quantity, unit_price) ==
    [inventory_item_id |-> inventory_item_id,
     custom_item_name |-> IF inventory_item_id = None THEN "special" ELSE Null,
     requested_quantity |-> requested_quantity,
     unit_price |-> unit_price]

\* ------------------------------------------------------ inventory matcher
\* api/endpoints/admin.py.  A name is a string, here a sequence of the
\* characters of Chars.  A score is a Python float; here it is the exact
\* fraction num/den, and two scores are compared by cross-multiplication.
Chars == {"a", "b", "c", "B", " ", ",", "'"}

\* ".lower()" and ".replace(',', ' ').replace('-', ' ').replace(\"'\", '')",
\* one character at a time.
RECURSIVE replace_chars(_)
replace_chars(name) ==
    IF name = <<>> THEN <<>>
    ELSE LET ch == IF Head(name) = "B" THEN "b" ELSE Head(name)
         IN  (IF ch = "," THEN <<" ">> ELSE IF ch = "'" THEN <<>> ELSE <<ch>>)
                 \o replace_chars(Tail(name))

\* str.split(): the maximal runs of characters other than whitespace.
RECURSIVE split(_, _)
split(name, word) ==
    IF name = <<>> THEN (IF word = <<>> THEN <<>> ELSE <<word>>)
    ELSE IF Head(name) = " "
         THEN (IF word = <<>> THEN <<>> ELSE <<word>>) \o split(Tail(name), <<>>)
         ELSE split(Tail(name), Append(word, Head(name)))

\* " ".join(words)
RECURSIVE join(_)
join(words) ==
    IF words = <<>> THEN <<>>
    ELSE IF Len(words) = 1 THEN Head(words)
    ELSE Head(words) \o <<" ">> \o join(Tail(words))

\* normalize_item_name: lowercase, strip, punctuation to spaces, apostrophes
\* removed, whitespace collapsed.
normalize_item_name(name) ==
    IF name = <<>> THEN <<>> ELSE join(split(replace_chars(name), <<>>))

\* get_name_tokens; stop_words holds the stop words that can be written
\* with Chars ('a' of the code's set).
get_name_tokens(name) ==
    LET words == split(normalize_item_name(name), <<>>)
        stop_words == {<<"a">>}
    IN  {words[k] : k \in DOMAIN words} \ stop_words

\* "norm1 in norm2" of two strings.
contains(norm2, norm1) ==
    \E k \in 0..(Len(norm2) - Len(norm1)) : SubSeq(norm2, k + 1, k + Len(norm1)) = norm1

Score(num, den) == [num |-> num, den |-> den]
score_ge(x, y) == x.num * y.den >= y.num * x.den
score_gt(x, y) == x.num * y.den > y.num * x.den

\* Faulty variant of subset_floor: the score is not raised.
subset_floor_missing(jaccard, tokens1, tokens2) == jaccard

\* "if tokens1.issubset(tokens2) or tokens2.issubset(tokens1):
\*      jaccard = max(jaccard, 0.85)"
subset_floor(jaccard, tokens1, tokens2) ==
    IF tokens1 \subseteq tokens2 \/ tokens2 \subseteq tokens1
    THEN (IF score_ge(jaccard, Score(85, 100)) THEN jaccard ELSE Score(85, 100))
    ELSE jaccard

\* calculate_name_similarity
calculate_name_similarity(name1, name2) ==
    LET norm1 == normalize_item_name(name1)
        norm2 == normalize_item_name(name2)
        tokens1 == get_name_tokens(name1)
        tokens2 == get_name_tokens(name2)
        jaccard == Score(Cardinality(tokens1 \cap tokens2), Cardinality(tokens1 \cup tokens2))
        contains_bonus == IF contains(norm2, norm1) \/ contains(norm1, norm2)
                          THEN Score(30, 100) ELSE Score(0, 100)
        floored == subset_floor(jaccard, tokens1, tokens2)
        final_score == Score(floored.num * contains_bonus.den + contains_bonus.num * floored.den,
                             floored.den * contains_bonus.den)
    IN  IF norm1 = norm2 THEN Score(1, 1)
        ELSE IF tokens1 = {} \/ tokens2 = {} THEN Score(0, 1)
        ELSE IF score_ge(final_score, Score(1, 1)) THEN Score(1, 1) ELSE final_score

\* The loop of find_matching_inventory_item over the candidates k..n:
\* "if score > best_score".
RECURSIVE best_from(_, _, _, _)
best_from(scores, k, best_match, best_score) ==
    IF k > Len(scores) THEN [best_match |-> best_match, best_score |-> best_score]
    ELSE IF score_gt(scores[k], best_score)
         THEN best_from(scores, k + 1, k, scores[k])
         ELSE best_from(scores, k + 1, best_match, best_score)

\* Faulty variant of matcher_result: the first candidate that reaches the
\* threshold is returned, not the best one.
matcher_result_first(scores, similarity_threshold) ==
    LET reaching == {k \in DOMAIN scores : score_ge(scores[k], Score(similarity_threshold, 100))}
    IN  IF reaching = {} THEN [best_match |-> None, best_score |-> Score(0, 1)]
        ELSE LET k == CHOOSE k \in reaching : \A j \in reaching : k <= j
             IN  [best_match |-> k, best_score |-> scores[k]]

\* What find_matching_inventory_item returns for the scores of the
\* candidates: the position of the best candidate and its score, or
\* (None, 0.0).  similarity_threshold is in hundredths.
matcher_result(scores, similarity_threshold) ==
    LET best == best_from(scores, 1, None, Score(0, 1))
    IN  IF score_ge(best.best_score, Score(similarity_threshold, 100))
        THEN best
        ELSE [best_match |-> None, best_score |-> Score(0, 1)]

\* find_matching_inventory_item; inventory_items are the names of the active
\* inventory items of the property, in the order of the query.
find_matching_inventory_item(item_name, inventory_items, similarity_threshold) ==
    /\ ~matching.returned
    /\ matching.item_name = item_name
    /\ matching.inventory_items = inventory_items
    /\ LET scores == [k \in DOMAIN inventory_items |->
                        calculate_name_similarity(item_name, inventory_items[k])]
       IN  matching' = [matching EXCEPT
               !.similarity_threshold = similarity_threshold,
               !.scores = scores,
               !.returned = TRUE,
               !.result = matcher_result(scores, similarity_threshold)]
    /\ UNCHANGED <<order, items, next_item_id, inventory, stock_added, pc, last, aliases, session, order_numbers, utcnow>>

\* An OrderItemUpdate body of the supervisor's item edit.
ItemUpdateData(approved_quantity) ==
    [approved_quantity |-> approved_quantity, reviewer_notes |-> "note"]

\* One entry of OrderReviewRequest.item_updates (a dict).
ReviewUpdate(item_id, approved_quantity) ==
    [item_id |-> item_id, keys |-> {"approved_quantity", "reviewer_notes"},
     approved_quantity |-> approved_quantity, reviewer_notes |-> "note"]

\* The action strings of a review request; "hold" stands for any other string.
ReviewActions == {"approve", "request_changes", "reject", "hold"}

\* An OrderReceiveItemRequest body without its item_id.
ReceiveEntry(received_quantity, has_issue) ==
    [received_quantity |-> received_quantity,
     has_issue |-> has_issue,
     issue_description |-> IF has_issue THEN "damaged" ELSE Null,
     issue_photo_url |-> IF has_issue THEN "photo" ELSE Null,
     receiving_notes |-> IF has_issue THEN "see photo" ELSE Null]

\* "finalize: bool = False": the flag of a receive request sent without one.
finalize_default == FALSE

\* OrderReceiveRequest bodies with entries from E for any set of item ids
\* (an id that is not an item of the order is an invalid id).
ReceiveRequestsOver(E) ==
    UNION {[items : [ids -> E], finalize : BOOLEAN] : ids \in SUBSET ItemIds}

Init ==
    /\ order = NoOrder
    /\ items = <<>>
    /\ next_item_id = 1
    /\ inventory = SeedInventory
    /\ stock_added = [i \in ItemIds |-> 0]
    /\ pc = "idle"
    /\ last = Returned("none", "ok", FALSE, FALSE)
    /\ aliases = <<>>
    /\ matching = NoMatching
    /\ session = NoSession
    /\ order_numbers = {}
    /\ utcnow = 1

\* ------------------------------------------------------------------- Spec
\* The whole lifecycle of an order, with one kind of item and unit quantities.
UnitItem == ItemData(CatalogItemId, 1, 1)

AddOrderItem == add_order_item(UnitItem)
DeleteOrderItem == \E i \in ItemIds : delete_order_item(i)
UpdateDraftOrderItem == \E i \in ItemIds : update_draft_order_item(i, 1)
UnitReviewRequests == {[action |-> a, review_notes |-> "ok", item_updates |-> u] : a \in ReviewActions, u \in {<<>>} \cup {<<ReviewUpdate(i, 0)>> : i \in ItemIds}}
UnitReceiveRequests == ReceiveRequestsOver({ReceiveEntry(1, h) : h \in BOOLEAN})

Next ==
    \/ (\E d \in {<<>>, <<UnitItem>>} : create_order([items |-> d]))
    \/ commit_estimated_total
    \/ fail_after_first_commit
    \/ AddOrderItem
    \/ (add_review_item(UnitItem))
    \/ (\E i \in ItemIds : update_order_item(i, ItemUpdateData(0)))
    \/ delete_order
    \/ DeleteOrderItem
    \/ UpdateDraftOrderItem
    \/ submit_order
    \/ withdraw_order
    \/ (\E request \in UnitReviewRequests : review_order(request))
    \/ resubmit_order
    \/ mark_order_ordered
    \/ unmark_order_ordered
    \/ (add_receiving_item(UnitItem))
    \/ (\E r \in UnitReceiveRequests : receive_order_items(r))
    \/ get_unreceived_items
    \/ (\E order_item_ids \in SUBSET ItemIds : dismiss_shortage(order_item_ids))

Spec == Init /\ [][Next]_vars

\* ------------------------------------------------------------- SpecReview
\* The order up to the end of its review, with every quantity in 0..MaxQty
\* and items with and without a unit price.
CatalogItemDatas == {ItemData(CatalogItemId, q, p) : q \in 1..MaxQty, p \in {None, 1}}

RichReviewRequests == {[action |-> a, review_notes |-> "ok", item_updates |-> u] : a \in ReviewActions, u \in {<<>>} \cup {<<ReviewUpdate(i, q)>> : i \in ItemIds, q \in 0..MaxQty}}

NextReview ==
    \/ (\E d \in {<<>>} \cup {<<x>> : x \in CatalogItemDatas} : create_order([items |-> d]))
    \/ commit_estimated_total
    \/ fail_after_first_commit
    \/ (\E d \in CatalogItemDatas : add_order_item(d))
    \/ (\E d \in CatalogItemDatas : add_review_item(d))
    \/ (\E i \in ItemIds, q \in 0..MaxQty : update_order_item(i, ItemUpdateData(q)))
    \/ delete_order
    \/ DeleteOrderItem
    \/ (\E i \in ItemIds, q \in 1..MaxQty : update_draft_order_item(i, q))
    \/ submit_order
    \/ withdraw_order
    \/ (\E request \in RichReviewRequests : review_order(request))
    \/ resubmit_order

SpecReview == Init /\ [][NextReview]_vars

\* ------------------------------------------------------------ SpecReceive
\* Receiving of an order that has been marked ordered, with every received
\* quantity in 0..MaxReceived; nothing that arrived (quantity 0) is reported as
\* an issue.
\* The items of an approved order: a catalog item, or a free-text item that
\* add_order_item stored without an inventory link.
OrderedItems ==
    {OrderItem(CatalogItemId, Null, 1, 1, 1), OrderItem(None, "special", 1, 1, None)}

\* The orders row after create, submit, approve and mark_order_ordered.
OrderedOrder(its) ==
    [status |-> "ordered", submitted_at |-> Set, reviewed_by |-> "supervisor",
     reviewed_at |-> Set, review_notes |-> "ok", approved_at |-> Set,
     ordered_at |-> Set, received_at |-> Null,
     estimated_total |-> calculate_order_total(its),
     actual_total |-> None, receipts |-> <<>>,
     order_number |-> generate_order_number(PropertyCode, 1)]

InitReceive ==
    /\ \E first \in OrderedItems, k \in ItemIds :
          /\ items = [i \in 1..k |-> IF i = 1 THEN first ELSE OrderItem(CatalogItemId, Null, 1, 1, 1)]
          /\ next_item_id = k + 1
    /\ order = OrderedOrder(items)
    /\ inventory = SeedInventory
    /\ stock_added = [i \in ItemIds |-> 0]
    /\ pc = "idle"
    /\ last = Returned("mark_order_ordered", "ok", FALSE, FALSE)
    /\ aliases = <<>>
    /\ matching = NoMatching
    /\ session = NoSession
    /\ order_numbers = {order.order_number}
    /\ utcnow = 1

RichReceiveRequests == ReceiveRequestsOver({ReceiveEntry(q, q = 0) : q \in 0..MaxReceived})

NextReceive ==
    \/ (\E r \in RichReceiveRequests : receive_order_items(r))
    \/ (add_receiving_item(UnitItem))
    \/ commit_estimated_total
    \/ fail_after_first_commit

SpecReceive == InitReceive /\ [][NextReceive]_vars

\* ------------------------------------------------------------ SpecReceipts
\* A historical order seeded by the administrator and the receipts that are
\* uploaded, edited, verified and deleted for it.
\* A ReceiptLineItem of the extraction, matched to an order item or not.
LineItem(matched_order_item_id, unit_price, total_price) ==
    [item_name |-> "KS EGGS", matched_order_item_id |-> matched_order_item_id,
     matched_inventory_item_id |-> None, matched_order_item_name |-> Null,
     unit_price |-> unit_price, total_price |-> total_price]

LineItemLists == {<<>>, <<LineItem(None, 1, 1)>>} \cup {<<LineItem(1, p, 1)>> : p \in 1..MaxTotal}
ReceiptTotals == {None} \cup 1..MaxTotal
SeedRequests == {[status |-> st, items |-> <<[quantity |-> 1, unit_price |-> 1]>>] : st \in {"ordered", "received"}}
ReceiptIds == 1..MaxReceiptId

ReceiptUpdates ==
    {[keys |-> {"total"}, total |-> t, line_items |-> <<>>] : t \in ReceiptTotals}
    \cup {[keys |-> {"line_items"}, total |-> None, line_items |-> l] : l \in LineItemLists}

NextReceipts ==
    \/ (\E request \in SeedRequests : seed_historical_order(request))
    \/ commit_estimated_total
    \/ fail_after_first_commit
    \/ (\E t \in ReceiptTotals : create_receipt([total |-> t]))
    \/ (\E t \in ReceiptTotals, l \in LineItemLists : upload_receipt([total |-> t, line_items |-> l]))
    \/ (\E r \in ReceiptIds, receipt_data \in ReceiptUpdates : update_receipt(r, receipt_data))
    \/ (\E r \in ReceiptIds : verify_receipt(r))
    \/ (\E r \in ReceiptIds : delete_receipt(r))
    \/ (\E r \in ReceiptIds, x \in 1..MaxTotal, key \in {"unit_price", "total_price"} : update_receipt_line_item(r, 1, [unit_price |-> IF key = "unit_price" THEN x ELSE None, total_price |-> IF key = "total_price" THEN x ELSE None]))
    \/ (\E r \in ReceiptIds : delete_receipt_line_item(r, 1))

SpecReceipts == Init /\ [][NextReceipts]_vars

\* ------------------------------------------------------------- SpecCustom
\* Orders whose items are free-text ("custom") items, from creation to
\* receiving.
CustomItemDatas ==
    {[ItemData(None, 1, None) EXCEPT !.custom_item_name = n] : n \in {"Twine", " twine"}}

NextCustom ==
    \/ (\E d \in {<<>>} \cup {<<x>> : x \in CustomItemDatas} : create_order([items |-> d]))
    \/ commit_estimated_total
    \/ (\E d \in CustomItemDatas : add_order_item(d))
    \/ submit_order
    \/ (\E d \in CustomItemDatas : add_review_item(d))
    \/ (review_order([action |-> "approve", review_notes |-> "ok", item_updates |-> <<>>]))
    \/ mark_order_ordered
    \/ (\E d \in CustomItemDatas : add_receiving_item(d))

SpecCustom == Init /\ [][NextCustom]_vars

\* ------------------------------------------------------------ SpecAliases
\* An ordered order with one receipt whose line is not matched yet, and the
\* purchasing team matching receipt codes to inventory items.
InitAliases ==
    /\ items = (1 :> OrderItem(CatalogItemId, Null, 1, 1, 1))
    /\ next_item_id = 2
    /\ order = [OrderedOrder(items) EXCEPT
                   !.actual_total = 1,
                   !.receipts = (1 :> Receipt(1, <<LineItem(None, 1, 1)>>))]
    /\ inventory = SeedInventory
    /\ stock_added = [i \in ItemIds |-> 0]
    /\ pc = "idle"
    /\ last = Returned("upload_receipt", "ok", FALSE, FALSE)
    /\ aliases = <<>>
    /\ matching = NoMatching
    /\ session = NoSession
    /\ order_numbers = {order.order_number}
    /\ utcnow = 1

MatchRequests ==
    {[receipt_code |-> c, inventory_item_id |-> v, supplier_id |-> sup, unit_price |-> p, receipt_id |-> r] :
        c \in ReceiptCodes, v \in {CatalogItemId, CatalogItemId + 1}, sup \in {None, 1},
        p \in {None, 1}, r \in {None, 1}}

NextAliases ==
    \/ (\E match_request \in MatchRequests : match_receipt_item_to_inventory(match_request))
    \/ (\E alias_id \in 1..MaxAliasId : delete_receipt_alias(alias_id))

SpecAliases == InitAliases /\ [][NextAliases]_vars

\* -------------------------------------------------------------- SpecRace
\* Finalizing receive calls on an ordered order, each one either alone
\* (receive_order_items, or receive_read directly followed by
\* receive_commit) or overlapping another one.
FinalizingRequests == {r \in RichReceiveRequests : r.finalize}

NextRace ==
    \/ (\E r \in FinalizingRequests : receive_order_items(r))
    \/ (\E r \in FinalizingRequests : receive_read(r))
    \/ receive_commit

\* The items of the order: one item, or the item and a catalog item.
InitRace ==
    /\ items \in {<<first>> : first \in OrderedItems}
                \cup {<<first, OrderItem(CatalogItemId, Null, 1, 1, 1)>> : first \in OrderedItems}
    /\ next_item_id = Len(items) + 1
    /\ order = OrderedOrder(items)
    /\ inventory = SeedInventory
    /\ stock_added = [i \in ItemIds |-> 0]
    /\ pc = "idle"
    /\ last = Returned("mark_order_ordered", "ok", FALSE, FALSE)
    /\ aliases = <<>>
    /\ matching = NoMatching
    /\ session = NoSession
    /\ order_numbers = {order.order_number}
    /\ utcnow = 1

SpecRace == InitRace /\ [][NextRace]_vars

\* ----------------------------------------------------------- SpecNumbers
\* The creation of an order in a database that already holds orders of the
\* property and of another property, created on any of the dates.
InitNumbers ==
    /\ order = NoOrder
    /\ items = <<>>
    /\ next_item_id = 1
    /\ inventory = SeedInventory
    /\ stock_added = [i \in ItemIds |-> 0]
    /\ pc = "idle"
    /\ last = Returned("none", "ok", FALSE, FALSE)
    /\ aliases = <<>>
    /\ matching = NoMatching
    /\ session = NoSession
    /\ utcnow \in 1..MaxDate
    /\ order_numbers \in SUBSET {generate_order_number(code, today) :
                                  code \in {PropertyCode, "BLC"}, today \in 1..utcnow}

\* Midnight (UTC) passes.
next_day ==
    /\ utcnow < MaxDate
    /\ utcnow' = utcnow + 1
    /\ UNCHANGED <<order, items, next_item_id, inventory, stock_added, pc, last, aliases,
                   matching, session, order_numbers>>

NextNumbers ==
    \/ (\E d \in {<<>>, <<UnitItem>>} : create_order([items |-> d]))
    \/ commit_estimated_total
    \/ fail_after_first_commit
    \/ AddOrderItem
    \/ delete_order
    \/ submit_order
    \/ next_day

SpecNumbers == InitNumbers /\ [][NextNumbers]_vars

\* ------------------------------------------------------------ SpecMatcher
\* The matcher alone: one call of find_matching_inventory_item for every
\* item name of at most MaxNameLen characters, every list of at most
\* MaxCandidates inventory names and every threshold of Thresholds.
\* The lists of distinct inventory names of at most MaxCandidates entries;
\* the names of the inventory items are "b", "b c", "c,b", "a", "bc".
InventoryLists ==
    LET InventoryNames == {<<"b">>, <<"b", " ", "c">>, <<"c", ",", "b">>, <<"a">>, <<"b", "c">>}
    IN  UNION {{l \in [1..n -> InventoryNames] : \A j, k \in 1..n : l[j] = l[k] => j = k} :
               n \in 0..MaxCandidates}

\* similarity_threshold in hundredths; 60 is the default.
Thresholds == {30, 60, 85, 100}

InitMatcher ==
    /\ order = NoOrder
    /\ items = <<>>
    /\ next_item_id = 1
    /\ inventory = SeedInventory
    /\ stock_added = [i \in ItemIds |-> 0]
    /\ pc = "idle"
    /\ last = Returned("none", "ok", FALSE, FALSE)
    /\ aliases = <<>>
    /\ \E item_name \in UNION {[1..n -> Chars] : n \in 0..MaxNameLen},
          inventory_items \in InventoryLists :
          matching = [NoMatching EXCEPT !.item_name = item_name,
                                        !.inventory_items = inventory_items]
    /\ session = NoSession
    /\ order_numbers = {}
    /\ utcnow = 1

NextMatcher ==
    \E similarity_threshold \in Thresholds :
        find_matching_inventory_item(matching.item_name, matching.inventory_items,
                                     similarity_threshold)

SpecMatcher == InitMatcher /\ [][NextMatcher]_vars

\* ------------------------------------------------------ steps and frames
\* A step in which a handler ran from start to end and returned HTTP 2xx.
Handled(op) ==
    pc = "idle" /\ pc' = "idle" /\ last'.op = op /\ last'.result = "ok"

\* Nothing is written to the orders, order_items or inventory_items tables.
NothingWritten ==
    UNCHANGED <<order, items, next_item_id, inventory, stock_added, aliases, order_numbers, utcnow>>

\* Order item a with the receiving fields of order item b.
WithReceivingFieldsOf(a, b) ==
    [a EXCEPT !.received_quantity = b.received_quantity, !.has_issue = b.has_issue,
              !.issue_description = b.issue_description,
              !.receiving_notes = b.receiving_notes]

\* -------------------------------------------------------- state machine
\* The edges of the transition table that change the status.
TableEdges ==
    {<<"draft", "submitted">>, <<"submitted", "under_review">>,
     <<"submitted", "approved">>, <<"under_review", "approved">>,
     <<"submitted", "changes_requested">>, <<"under_review", "changes_requested">>,
     <<"submitted", "cancelled">>, <<"under_review", "cancelled">>,
     <<"changes_requested", "submitted">>,
     <<"approved", "ordered">>, <<"ordered", "approved">>,
     <<"ordered", "partially_received">>, <<"ordered", "received">>,
     <<"partially_received", "received">>,
     <<"submitted", "draft">>, <<"under_review", "draft">>, <<"approved", "draft">>,
     <<"draft", "deleted">>}

\* Every change of the status of an existing order is an edge of the table,
\* and the status of a received or cancelled order never changes.
FollowsTable ==
    /\ (OrderExists /\ order'.status # order.status)
          => <<order.status, order'.status>> \in TableEdges
    /\ order.status \in {"received", "cancelled"} => order'.status = order.status

\* A finalizing receive was accepted.
FinalizingReceive == Handled("receive_order_items") /\ last'.finalize

\* C1 as stated: every status change is an edge of the transition table, a
\* finalizing receive is accepted only from ordered or partially_received,
\* and no operation changes the status of a received or cancelled order.
C1_StatusFollowsTable ==
    [][/\ FollowsTable
       /\ FinalizingReceive => order.status \in {"ordered", "partially_received"}]_vars

\* C1 amended: every status change is an edge of the transition table, a
\* finalizing receive is accepted only from ordered, partially_received or
\* received (where it leaves the order received), and no operation changes
\* the status of a received or cancelled order.
C1_StatusFollowsTableOrRefinalize ==
    [][/\ FollowsTable
       /\ FinalizingReceive => order.status \in {"ordered", "partially_received", "received"}]_vars

\* C1 witness: a finalizing receive was accepted on an order that the
\* finalizing receive before it had already made received.
C1_Witness ==
    /\ last = Returned("receive_order_items", "ok", TRUE, TRUE)
    /\ order.status = "received"
    /\ order.received_at = Set
    /\ \A i \in DOMAIN items : items[i].is_received

\* The From states the transition table lists for a workflow endpoint that
\* was accepted; finalizing receive as the table lists it.
TableFrom(op) ==
    CASE op = "submit_order" -> {"draft"}
      [] op = "update_order_item" -> {"submitted", "under_review"}
      [] op = "review_order" -> {"submitted", "under_review"}
      [] op = "resubmit_order" -> {"changes_requested", "draft"}
      [] op = "mark_order_ordered" -> {"approved"}
      [] op = "unmark_order_ordered" -> {"ordered"}
      [] op = "withdraw_order" -> {"submitted", "under_review", "approved"}
      [] op = "delete_order" -> {"draft"}
      [] op = "receive_order_items" -> {"ordered", "partially_received", "received"}
      [] OTHER -> OrderStatus \cup {"absent", "deleted"}

\* A call that is rejected is rejected before any mutation: the order, its
\* items, its timestamps and all stock are as before; and a workflow
\* endpoint is accepted only on an order in one of its From states.
RejectedOutsideFrom ==
    /\ (pc = "idle" /\ last'.op = "rejected" /\ last' # last) => NothingWritten
    /\ (pc = "idle" /\ pc' = "idle" /\ last'.result = "ok" /\ last' # last)
          => order.status \in TableFrom(last'.op)

\* C9 as stated: a workflow endpoint invoked on an order whose status is not
\* a listed From state is rejected before any mutation; finalizing receive
\* lists ordered and partially_received.
C9_RejectedOutsideFrom ==
    [][/\ RejectedOutsideFrom
       /\ FinalizingReceive => order.status \in {"ordered", "partially_received"}]_vars

\* C9 amended: a workflow endpoint invoked on an order whose status is not a
\* listed From state is rejected before any mutation, where the From states
\* of a finalizing receive are ordered, partially_received and received.
C9_RejectedOutsideFromOrRefinalize ==
    [][RejectedOutsideFrom]_vars

\* C9 witness: a workflow endpoint was rejected for the status of an order
\* that has items, stock received and timestamps to lose.
C9_Witness ==
    /\ last = Returned("rejected", "precondition", FALSE, FALSE)
    /\ order.status = "partially_received"
    /\ \E i \in DOMAIN items : stock_added[i] > 0

\* ---------------------------------------------------------------- totals
\* The endpoints that add, edit or delete an order item or change approved
\* quantities.
ItemMutatingOps ==
    {"create_order", "add_order_item", "update_draft_order_item", "delete_order_item",
     "update_order_item", "review_order", "resubmit_order", "add_review_item",
     "add_receiving_item"}

\* C7: after every endpoint that adds, edits or deletes an order item or
\* changes approved quantities, the stored estimated_total is the sum over
\* the current items of final_quantity * (unit_price or 0).
C7_TotalMatchesItems ==
    (pc = "idle" /\ last.result = "ok" /\ last.op \in ItemMutatingOps)
    => order.estimated_total = calculate_order_total(items)

\* C8: a call persists its writes all together, in the commit that ends it:
\* while a call is still running, and may yet fail, none of its item
\* mutations, status change or total is committed.
C8_AtomicCalls ==
    [][pc' # "idle" => NothingWritten]_vars

\* C10: a review request with an item update for an id that is not an item
\* of the order is rejected as a whole: no approved_quantity or
\* reviewer_notes, no review metadata, no estimated_total and no status is
\* written.
C10_ForeignItemRejectsReview ==
    [][\A request \in RichReviewRequests :
          (/\ pc = "idle"
           /\ \E k \in DOMAIN request.item_updates : request.item_updates[k].item_id \notin DOMAIN items
           /\ review_order(request))
          => last'.op = "rejected" /\ NothingWritten]_vars

\* ------------------------------------------------------------- receiving
\* C2: after every finalizing receive, for each item of the request that is
\* linked to an inventory item, the stock this order item has added so far
\* equals the received quantity just recorded for it.
C2_StockOncePerUnit ==
    [][\A r \in RichReceiveRequests :
          (r.finalize /\ Handled("receive_order_items") /\ receive_order_items(r))
          => \A i \in DOMAIN r.items :
                IsLinked(items[i]) => stock_added'[i] = items'[i].received_quantity]_vars

C4_RefinalizeSameQuantities ==
    [][(Handled("receive_order_items") /\ last'.finalize /\ last'.resent)
          => inventory' = inventory /\ stock_added' = stock_added]_vars

\* C4 witness: the repeated finalizing request was handled for a linked item
\* with a positive quantity.
C4_Witness ==
    /\ last = Returned("receive_order_items", "ok", TRUE, TRUE)
    /\ \E i \in DOMAIN items :
          IsLinked(items[i]) /\ items[i].is_received /\ items[i].received_quantity > 0

\* C5: right after a finalizing receive the order is received if every item
\* of the order is received, and partially_received otherwise.
C5_StatusAfterFinalize ==
    (pc = "idle" /\ last.op = "receive_order_items" /\ last.result = "ok" /\ last.finalize)
    => order.status = IF \A i \in DOMAIN items : items[i].is_received
                      THEN "received" ELSE "partially_received"

\* C5 witness: a finalizing receive named only some of the items.
C5_Witness ==
    /\ pc = "idle" /\ last.op = "receive_order_items" /\ last.result = "ok" /\ last.finalize
    /\ order.status = "partially_received"
    /\ \E i, j \in DOMAIN items : items[i].is_received /\ ~items[j].is_received

\* C6: a receive request that names an id that is not an item of the order
\* fails as a whole, with or without finalize: nothing is written.
C6_InvalidItemRejectsAll ==
    [][\A r \in RichReceiveRequests :
          (pc = "idle" /\ DOMAIN r.items \ DOMAIN items # {} /\ receive_order_items(r))
          => last'.op = "rejected" /\ NothingWritten]_vars

\* C6 witness: the request was rejected for an unknown item id on an order
\* that is being received and has an item the request could have named.
C6_Witness ==
    /\ last = Returned("rejected", "referential", FALSE, FALSE)
    /\ order.status \in {"ordered", "partially_received"}
    /\ Cardinality(DOMAIN items) < MaxItemId


\* ---------------------------------------------------------------- review
\* C11: resubmitting an order that is in changes_requested and has at least
\* one item is accepted, sets approved_quantity and reviewer_notes to null on
\* every item of the order and moves the order to submitted.
C11_ResubmitClearsReview ==
    [][(order.status = "changes_requested" /\ DOMAIN items # {} /\ resubmit_order)
          => /\ last' = Returned("resubmit_order", "ok", FALSE, FALSE)
             /\ order'.status = "submitted"
             /\ DOMAIN items' = DOMAIN items
             /\ \A i \in DOMAIN items' :
                   /\ items'[i].approved_quantity = None
                   /\ items'[i].reviewer_notes = Null]_vars

\* C11 witness: the order was resubmitted and is awaiting a fresh review:
\* no item carries an approved quantity or a note, no reviewer is recorded.
C11_Witness ==
    /\ last = Returned("resubmit_order", "ok", FALSE, FALSE)
    /\ order.status = "submitted"
    /\ order.reviewed_by = Null
    /\ Cardinality(DOMAIN items) = MaxItemId
    /\ \A i \in DOMAIN items :
          items[i].approved_quantity = None /\ items[i].reviewer_notes = Null


\* The approved quantity an approving review request leaves on item i: what
\* the request sets for the item, else what was set before, else what was
\* requested.
ApprovedAfter(i, request) ==
    LET ks == {k \in DOMAIN request.item_updates : request.item_updates[k].item_id = i}
    IN  IF ks # {} THEN request.item_updates[CHOOSE k \in ks : \A j \in ks : j <= k].approved_quantity
        ELSE IF items[i].approved_quantity # None THEN items[i].approved_quantity
        ELSE items[i].requested_quantity

\* C12: approving an order in submitted or under_review is accepted, moves it
\* to approved, sets approved_quantity = requested_quantity on every item
\* whose approved_quantity was unset and leaves every set approved_quantity
\* (0 included) as it was; and in an approved order no item has a null
\* approved_quantity.
C12_ApproveDefaultsUnset ==
    /\ [](order.status = "approved" => \A i \in DOMAIN items : items[i].approved_quantity # None)
    /\ [][\A request \in UnitReviewRequests :
             (/\ request.action = "approve"
              /\ order.status \in {"submitted", "under_review"}
              /\ review_order(request))
             => /\ last' = Returned("review_order", "ok", FALSE, FALSE)
                /\ order'.status = "approved"
                /\ DOMAIN items' = DOMAIN items
                /\ \A i \in DOMAIN items :
                      /\ items'[i].approved_quantity = ApprovedAfter(i, request)
                      /\ items'[i].requested_quantity = items[i].requested_quantity]_vars

\* C12 witness: an order was approved with one item the reviewer had set to
\* 0 and one item the reviewer never touched.
C12_Witness ==
    /\ last = Returned("review_order", "ok", FALSE, FALSE)
    /\ order.status = "approved"
    /\ \E i, j \in DOMAIN items :
          /\ items[i].approved_quantity = 0 /\ items[i].requested_quantity > 0
          /\ items[j].reviewer_notes = Null
          /\ items[j].approved_quantity = items[j].requested_quantity


\* C13: submitting a draft order without items fails with a client error
\* and leaves the order in draft with submitted_at unset; submitting a draft
\* order with at least one item makes it submitted and sets submitted_at.
C13_SubmitNeedsItems ==
    [][(order.status = "draft" /\ submit_order)
          => IF DOMAIN items = {}
             THEN /\ last' = Returned("rejected", "empty_order", FALSE, FALSE)
                  /\ NothingWritten
                  /\ order'.status = "draft"
                  /\ order'.submitted_at = Null
             ELSE /\ last' = Returned("submit_order", "ok", FALSE, FALSE)
                  /\ order'.status = "submitted"
                  /\ order'.submitted_at = Set
                  /\ items' = items]_vars

\* C13 witness: an order that was submitted, withdrawn and emptied was
\* refused as an empty order.
C13_Witness ==
    /\ last = Returned("rejected", "empty_order", FALSE, FALSE)
    /\ order.status = "draft"
    /\ order.submitted_at = Null
    /\ items = <<>>
    /\ next_item_id > 1


\* ------------------------------------------------------- requester edits
\* A requester-side edit of the order was refused for the order's status.
RefusedForStatus ==
    /\ last' = Returned("rejected", "not_editable", FALSE, FALSE)
    /\ pc' = "idle"
    /\ NothingWritten

\* C14: adding an item, changing an item's requested quantity and removing
\* an item are refused for the status of the order exactly when the order is
\* neither in draft nor in changes_requested.
C14_EditableInDraftAndChangesRequested ==
    [][(OrderExists /\ (AddOrderItem \/ UpdateDraftOrderItem \/ DeleteOrderItem))
          => (RefusedForStatus <=> order.status \notin {"draft", "changes_requested"})]_vars


\* C15: a receive request on an ordered order that reports a received
\* quantity for every item of the order and carries no finalize field is
\* accepted and leaves the order in status received.
C15_ReceiveAllWithoutFinalize ==
    [][\A r \in RichReceiveRequests :
          (/\ order.status = "ordered"
           /\ r.finalize = finalize_default
           /\ DOMAIN r.items = DOMAIN items
           /\ receive_order_items(r))
          => /\ last'.op = "receive_order_items" /\ last'.result = "ok"
             /\ order'.status = "received"]_vars


\* ----------------------------------------------------------------- money
\* C16: whenever a handler has returned and the order's actual_total is set,
\* it is the sum of total (null counted as 0) over the receipts linked to
\* the order.
C16_ActualTotalFromReceipts ==
    (pc = "idle" /\ last.result = "ok" /\ OrderExists /\ order.actual_total # None)
    => order.actual_total = sum_receipt_totals(order.receipts)

\* ------------------------------------------------------------- shortages
\* The shortage of an order item as the claims define it: finalQuantity
\* minus receivedQuantity, a null receivedQuantity counting as 0.
Shortage(item) ==
    final_quantity(item) - (IF item.received_quantity = None THEN 0 ELSE item.received_quantity)

\* The order is one whose items the shortage read path looks at.
ShortageStatuses == {"received", "partially_received"}

\* C17: when the order is received or partially_received and one of its
\* items has finalQuantity - receivedQuantity > 0, a call of the shortage
\* read path returns its list (which reports that item with that amount).
C17_ShortageReported ==
    [][(/\ order.status \in ShortageStatuses
        /\ \E i \in DOMAIN items : Shortage(items[i]) > 0
        /\ get_unreceived_items)
          => last'.op = "get_unreceived_items" /\ last'.result = "ok"]_vars

\* C18: a dismissal of the shortages of order items that exist succeeds
\* without error, the first time and every later time (it is then that the
\* flag is set, stays set, and a repetition changes nothing).
C18_DismissSucceeds ==
    [][\A order_item_ids \in SUBSET ItemIds :
          (order_item_ids \cap DOMAIN items # {} /\ dismiss_shortage(order_item_ids))
             => last'.op = "dismiss_shortage" /\ last'.result = "ok"]_vars

\* C19: every call of the shortage read path returns the property's list
\* (which holds one entry per item, the most recent one).
C19_ListReturned ==
    [][(pc = "idle" /\ get_unreceived_items)
          => last'.op = "get_unreceived_items" /\ last'.result = "ok"]_vars

\* ---------------------------------------------------------------- prices
\* The lines of a receipt that are matched to an order item linked to the
\* inventory item v and carry a unit price.
MatchedLines(receipt, its, v) ==
    {k \in DOMAIN receipt.line_items :
        LET line_item == receipt.line_items[k]
        IN  /\ ~Falsy(line_item.matched_order_item_id)
            /\ ~Falsy(line_item.unit_price)
            /\ line_item.matched_order_item_id \in DOMAIN its
            /\ its[line_item.matched_order_item_id].inventory_item_id = v}

\* The receipts with a line matched to v; receipt ids grow with time.
MatchedReceipts(receipts, its, v) ==
    {r \in DOMAIN receipts : MatchedLines(receipts[r], its, v) # {}}

\* The unit price the most recent receipt matched to v carries for it (that
\* of its last such line).
MostRecentPrice(receipts, its, v) ==
    LET r == CHOOSE x \in MatchedReceipts(receipts, its, v) :
                 \A y \in MatchedReceipts(receipts, its, v) : y <= x
        k == CHOOSE x \in MatchedLines(receipts[r], its, v) :
                 \A y \in MatchedLines(receipts[r], its, v) : y <= x
    IN  receipts[r].line_items[k].unit_price

\* C20: after a receipt upload, update or verification, the unit_price of
\* every inventory item that receipt lines are matched to is the price the
\* most recent receipt matched to it carries.
C20_PriceFromMostRecentReceipt ==
    [][(Handled("upload_receipt") \/ Handled("update_receipt") \/ Handled("verify_receipt"))
          => \A v \in DOMAIN inventory' :
                MatchedReceipts(order'.receipts, items', v) # {}
                   => inventory'[v].unit_price = MostRecentPrice(order'.receipts, items', v)]_vars

\* --------------------------------------------------------------- aliases
\* The aliases stored for the receipt code, inventory item and supplier of
\* a match request.
AliasesFor(al, match_request) ==
    {a \in DOMAIN al :
        /\ al[a].receipt_code = match_request.receipt_code
        /\ al[a].inventory_item_id = match_request.inventory_item_id
        /\ al[a].supplier_id = match_request.supplier_id}

\* C21: there is never more than one alias for a receipt code, inventory item
\* and supplier, and a successful match call leaves exactly one: a new one
\* with match_count 1 when there was none, else the same one with its
\* match_count raised by one (so n calls in a row give match_count n).
C21_AliasCountsMatches ==
    /\ [](\A a, b \in DOMAIN aliases :
             (/\ aliases[a].receipt_code = aliases[b].receipt_code
              /\ aliases[a].inventory_item_id = aliases[b].inventory_item_id
              /\ aliases[a].supplier_id = aliases[b].supplier_id) => a = b)
    /\ [][\A match_request \in MatchRequests :
            (/\ match_request.inventory_item_id \in DOMAIN inventory
             /\ match_receipt_item_to_inventory(match_request))
               => LET before == AliasesFor(aliases, match_request)
                      after == AliasesFor(aliases', match_request)
                  IN  /\ Cardinality(after) = 1
                      /\ \A a \in after :
                            IF before = {} THEN aliases'[a].match_count = 1
                            ELSE a \in before /\ aliases'[a].match_count = aliases[a].match_count + 1
                      /\ \A a \in DOMAIN aliases \ after : a \in DOMAIN aliases' /\ aliases'[a] = aliases[a]]_vars

\* Witness for C21: the same alias has been matched a second time or more.
C21_Witness ==
    /\ last.op = "match_receipt_item_to_inventory"
    /\ \E a \in DOMAIN aliases : aliases[a].match_count >= 2

\* ---------------------------------------------------------- custom items
\* C22: once the handler that created it has returned, no order item is left
\* with a free-text name and without an inventory item, and no two
\* non-recurring inventory items of the property have the same normalized
\* name.
C22_CustomItemsLinked ==
    pc = "idle" =>
        /\ \A i \in DOMAIN items :
              items[i].custom_item_name # Null => items[i].inventory_item_id # None
        /\ \A v, w \in DOMAIN inventory :
              (/\ ~inventory[v].is_recurring /\ ~inventory[w].is_recurring
               /\ lower(strip(inventory[v].name)) = lower(strip(inventory[w].name))) => v = w

\* C23: a finalizing receive with flagged items, and a review, return
\* success to the caller and keep what they committed (receiving fields,
\* stock, status, total) whatever happens to their email and in-app
\* notifications.
C23_NotificationFailureSwallowed ==
    [][/\ \A r \in UnitReceiveRequests :
             (/\ pc = "idle" /\ OrderExists /\ order.status \in ReceivableStatuses
              /\ invalid_item_ids(r) = {} /\ flagged_items(r) # {}
              /\ receive_order_items(r))
             => /\ last'.op = "receive_order_items" /\ last'.result = "ok"
                /\ items' = [i \in DOMAIN items |-> item_after_receive(i, r)]
                /\ order' = order_after_receive(r)
                /\ \A v \in DOMAIN inventory :
                      inventory'[v].current_stock = stock_after_receive(v, r)
       /\ \A r \in UnitReviewRequests :
             (/\ pc = "idle" /\ OrderExists /\ order.status \in ReviewStatuses
              /\ review_order(r))
             => /\ last'.op = "review_order" /\ last'.result = "ok"
                /\ order'.status = review_status(r.action, order.status)]_vars

\* The two token sets are not empty and one of them is a subset of the other.
TokensNested(name1, name2) ==
    LET tokens1 == get_name_tokens(name1)
        tokens2 == get_name_tokens(name2)
    IN  /\ tokens1 # {} /\ tokens2 # {}
        /\ (tokens1 \subseteq tokens2 \/ tokens2 \subseteq tokens1)

\* The score lies between 0.85 and 1.0.
AtLeastFloor(score) == score_ge(score, Score(85, 100)) /\ score_ge(Score(1, 1), score)

\* C24 as stated: whenever the normalized names differ and either token set
\* is a subset of the other, the score is at least 0.85 and at most 1.0.
C24_SubsetScoresAtLeastFloor ==
    \A k \in DOMAIN matching.scores :
        LET name1 == matching.item_name
            name2 == matching.inventory_items[k]
        IN  (/\ normalize_item_name(name1) # normalize_item_name(name2)
             /\ (\/ get_name_tokens(name1) \subseteq get_name_tokens(name2)
                 \/ get_name_tokens(name2) \subseteq get_name_tokens(name1)))
            => AtLeastFloor(matching.scores[k])

\* C24 amended: whenever the normalized names differ, both token sets are
\* non-empty and one is a subset of the other, the score is at least 0.85
\* and at most 1.0; when a token set is empty the score is 0.
C24_NonEmptySubsetScoresAtLeastFloor ==
    \A k \in DOMAIN matching.scores :
        LET name1 == matching.item_name
            name2 == matching.inventory_items[k]
        IN  normalize_item_name(name1) # normalize_item_name(name2)
            => /\ TokensNested(name1, name2) => AtLeastFloor(matching.scores[k])
               /\ (get_name_tokens(name1) = {} \/ get_name_tokens(name2) = {})
                     => matching.scores[k] = Score(0, 1)

\* C24 witness: "a b" was scored against "b c": tokens {b} and {b, c},
\* Jaccard 1/2, neither string inside the other, and the score is 0.85.
C24_Witness ==
    /\ matching.returned
    /\ matching.item_name = <<"a", " ", "b">>
    /\ \E k \in DOMAIN matching.scores :
          /\ matching.inventory_items[k] = <<"b", " ", "c">>
          /\ TokensNested(matching.item_name, matching.inventory_items[k])
          /\ score_ge(matching.scores[k], Score(85, 100))
          /\ score_ge(Score(85, 100), matching.scores[k])

\* What the matcher returns for the name and the candidates of the call at
\* another threshold.
MatchAt(similarity_threshold) == matcher_result(matching.scores, similarity_threshold)

\* C25: once the matcher has returned, for thresholds t <= u over the same
\* name and candidates: no match at t means no match at u, and a candidate
\* accepted at u is the candidate accepted at t.
C25_ThresholdMonotone ==
    matching.returned =>
        /\ matching.result = MatchAt(matching.similarity_threshold)
        /\ \A t, u \in Thresholds :
              t <= u =>
                 /\ MatchAt(t).best_match = None => MatchAt(u).best_match = None
                 /\ MatchAt(u).best_match # None => MatchAt(t) = MatchAt(u)

\* C25 witness: the call at threshold 0.85 returned its second candidate
\* although the first one, with a lower score, reaches the threshold 0.30.
C25_Witness ==
    /\ matching.returned
    /\ matching.similarity_threshold = 85
    /\ matching.result.best_match = 2
    /\ score_gt(matching.scores[2], matching.scores[1])
    /\ score_ge(matching.scores[1], Score(30, 100))
    /\ MatchAt(30) = matching.result

\* The stock an inventory item starts with: the catalog's, or the 0 of an
\* item created for a custom order item.
InitialStock(v) ==
    IF v \in DOMAIN SeedInventory THEN SeedInventory[v].current_stock ELSE 0

\* C26: an order outside partially_received and received has no received
\* item and has added no stock, and mark_order_ordered and
\* unmark_order_ordered leave every current_stock as it was.
C26_NoStockBeforeReceiving ==
    /\ [](order.status \notin {"partially_received", "received"}
            => /\ \A i \in DOMAIN items : ~items[i].is_received
               /\ \A i \in ItemIds : stock_added[i] = 0
               /\ \A v \in DOMAIN inventory :
                     inventory[v].current_stock = InitialStock(v))
    /\ [][(Handled("mark_order_ordered") \/ Handled("unmark_order_ordered"))
            => /\ \A v \in DOMAIN inventory :
                     inventory'[v].current_stock = inventory[v].current_stock
               /\ DOMAIN inventory' = DOMAIN inventory
               /\ stock_added' = stock_added
               /\ \A i \in DOMAIN items : ~items[i].is_received]_vars

\* C26 witness: the order was marked ordered and unmarked again, back in
\* approved, with no item received and every stock as it started.
C26_Witness ==
    /\ pc = "idle" /\ last.op = "unmark_order_ordered" /\ last.result = "ok"
    /\ order.status = "approved" /\ order.ordered_at = Null
    /\ DOMAIN items # {}
    /\ \A i \in DOMAIN items : ~items[i].is_received /\ stock_added[i] = 0
    /\ \A v \in DOMAIN inventory : inventory[v].current_stock = InitialStock(v)

\* The received quantities of the received order items in S.
RECURSIVE sum_received(_)
sum_received(S) ==
    IF S = {} THEN 0
    ELSE LET i == CHOOSE j \in S : TRUE
         IN  old_received_quantity(items[i]) + sum_received(S \ {i})

\* The stock every inventory item has gained is the sum of the quantities
\* stored as received on the received order items linked to it.
StockMatchesReceived ==
    \A v \in DOMAIN inventory :
        inventory[v].current_stock - InitialStock(v)
            = sum_received({i \in DOMAIN items : items[i].is_received /\ items[i].inventory_item_id = v})

\* C27: a finalizing receive that commits what it computed from rows that
\* are still the rows of the database (the calls are serialized) keeps the
\* stock gained equal to the received quantities stored; a state in which
\* they differ is reached only through a call that overlapped another one.
C27_SerializedReceivesAgree ==
    [][(StockMatchesReceived /\ ~StockMatchesReceived')
          => /\ session.phase = "read" /\ session'.phase = "committed"
             /\ session'.stale]_vars

\* C27 witness: two finalizing calls for the same linked order item loaded it
\* before either committed; the stock gained differs from the quantity the
\* second commit stored.
C27_Witness ==
    /\ session.phase = "committed" /\ session.stale
    /\ session.request.finalize
    /\ \E i \in DOMAIN session.request.items :
          /\ IsLinked(items[i])
          /\ i \in DOMAIN items /\ items[i].is_received
          /\ ~session.loaded_items[i].is_received
          /\ DOMAIN items = {i}
          /\ inventory[items[i].inventory_item_id].current_stock
                - InitialStock(items[i].inventory_item_id) # items[i].received_quantity

\* C28: whenever the order enters submitted, by submit_order or by
\* resubmit_order and whatever came before, every item of the order has
\* approved_quantity and reviewer_notes unset.
C28_ReviewStartsFresh ==
    [][(pc = "idle" /\ order.status # "submitted" /\ order'.status = "submitted")
          => \A i \in DOMAIN items' :
                /\ items'[i].approved_quantity = None
                /\ items'[i].reviewer_notes = Null]_vars

\* C29: a review request whose action is none of approve, request_changes
\* and reject is rejected and leaves the order (status, reviewed_by,
\* reviewed_at, review_notes, estimated_total) and every item's
\* approved_quantity and reviewer_notes as they were.
C29_UnknownActionRejected ==
    [][\A request \in UnitReviewRequests :
          (/\ request.action \notin {"approve", "request_changes", "reject"}
           /\ review_order(request))
          => /\ last'.op = "rejected"
             /\ order' = order
             /\ items' = items]_vars

\* C30: create_order for the property succeeds and stores a new draft order
\* whose order_number no other order has, however many orders of the
\* property were created on the same date.
C30_CreateAlwaysSucceeds ==
    [][\A order_data \in {[items |-> d] : d \in {<<>>, <<UnitItem>>}} :
          (order.status = "absent" /\ create_order(order_data))
          => /\ order'.status = "draft"
             /\ order'.order_number \notin order_numbers
             /\ order_numbers' = order_numbers \cup {order'.order_number}]_vars

====
